---- MODULE Spec2Model ----
(***************************************************************************)
(* Live event ingestion and state reconciliation of the FL dashboard.      *)
(*                                                                         *)
(*   store     the zustand live store (frontend/src/stores/liveStore.ts)   *)
(*   handlers  the WebSocket bridge (components/WebSocketProvider.tsx)     *)
(*   page      handleStart of pages/FLTrainingPage.tsx and the component   *)
(*             state it reads and writes                                   *)
(*                                                                         *)
(* JavaScript is single threaded: a handler, and an async function up to   *)
(* its await, runs to completion, so each is one action.  The part of      *)
(* handleStart after `await flApi.start(cfg)` is a second action, taken    *)
(* when the HTTP response (or its failure) arrives.                        *)
(*                                                                         *)
(* Specifications:                                                         *)
(*   Spec       the FL session: handleStart and the four FL events         *)
(*   SpecStop   Spec together with handleStop                              *)
(*   SpecRing   the prediction ring buffer                                 *)
(*   SpecLive   the dispatch root: mount, teardown, connectivity, events   *)
(*   SpecMerge  the chart merge of polled rounds and live round results    *)
(*   SpecTraffic the merge of polled and live predictions of a device      *)
(*   SpecAccum  the round-result sequence under round completions          *)
(*   SpecViews  handleStart and events of every type on the mounted root   *)
(*   SpecRemount the dispatch root with re-runs of its subscription effect *)
(*   SpecAuth   the auth store under login and logout                      *)
(***************************************************************************)
EXTENDS Integers, Sequences, FiniteSets, TLC

\* JavaScript's undefined and null.  TLC compares only values of one kind, so
\* each kind of field has its own: numbers (all others are >= 0), strings,
\* optional booleans ("true", "false" or NoStr) and objects.  An absent array
\* is an absent field of the payload (see Has).
UNDEF == -1
NULL == -2
NoStr == "undefined"
NullStr == "null"
NullObj == [null |-> TRUE]

\* ---- bounds of the model ----
\* number of WebSocket events delivered in one behaviour
MaxEvents == 2

\* client ids known to the model
Ids == {"a", "b", "c"}
\* results of the polled registered-client list (flApi.clients)
ClientLists == {{}, {"a", "b"}, {"a", "b", "c"}}
\* what a rejected start request throws: an Error with a message, or something else
Rejections == {[is_error |-> TRUE, message |-> "Network Error"],
               [is_error |-> FALSE, message |-> ""]}

VARIABLES
    store,       \* the live store (all fields of LiveState)
    clients,     \* FLTrainingPage state: ids of the registered clients (polled)
    configOpen,  \* FLTrainingPage state: the config modal is open
    starting,    \* FLTrainingPage state: a start request is in flight
    error,       \* FLTrainingPage state: the error string shown, or NullStr
    nEvents,     \* number of WebSocket events delivered so far
    last,        \* history: the handler that last wrote the store, and what the store held before it
    stopping,    \* FLTrainingPage state: a stop request is in flight
    transport,   \* the WebSocket hook: isConnected, the live subscriptions, the releases of each
    root,        \* WebSocketProvider: the subscription effect is active, the handles its teardown holds
    pushed,      \* history: every prediction handed to addPrediction, oldest first
    arrived,     \* history: every status event handed to its handler, oldest first
    finals,      \* chart merge: the polled round list and live results both runs end with
    runs,        \* chart merge: the page state of each of the two arrival orders
    monitor,     \* TrafficMonitorPage state: selectedDevice, paused, predictions (polled)
    auth,        \* the auth store (all fields of AuthState)
    loginPage    \* LoginPage: the error shown, where handleSubmit stands, what it did last

\* the variables the FL session does not touch
liveVars == <<transport, root, pushed, arrived>>
mergeVars == <<finals, runs>>
authVars == <<auth, loginPage>>
viewVars == <<monitor, auth, loginPage>>

vars == <<store, clients, configOpen, starting, error, nEvents, last, stopping,
          transport, root, pushed, arrived, finals, runs, monitor, auth, loginPage>>

\* ---- JavaScript operators ----
\* x ?? y
Nullish(x, y) == IF x = UNDEF \/ x = NULL THEN y ELSE x

\* d.field is present
Has(d, field) == field \in DOMAIN d

\* x < y on numbers: undefined compares false with everything, null counts as 0
JsLess(x, y) ==
    /\ x # UNDEF
    /\ y # UNDEF
    /\ (IF x = NULL THEN 0 ELSE x) < (IF y = NULL THEN 0 ELSE y)

\* a map (Record<string, T>) with no key
EmptyMap == [k \in {} |-> UNDEF]

\* { ...m, [k]: v }
Put(m, k, v) == [x \in (DOMAIN m) \cup {k} |-> IF x = k THEN v ELSE m[x]]

\* ---- liveStore.ts ----
\* ring buffer size
MAX_PREDICTIONS == 50

\* seq.slice(0, n)
Slice(seq, n) == IF Len(seq) <= n THEN seq ELSE SubSeq(seq, 1, n)

\* mutation: the buffer is never truncated
addPrediction_NoSlice(s, p) ==
    [s EXCEPT !.latestPredictions = <<p>> \o s.latestPredictions]

\* mutation: the new item is put at the end and the front is cut
addPrediction_KeepsOldest(s, p) ==
    [s EXCEPT !.latestPredictions = Slice(s.latestPredictions \o <<p>>, MAX_PREDICTIONS)]

addPrediction(s, p) ==
    [s EXCEPT !.latestPredictions = Slice(<<p>> \o s.latestPredictions, MAX_PREDICTIONS)]

\* mutation: the spread of the previous map is forgotten
setFLClientProgress_NoSpread(s, clientId, progress) ==
    [s EXCEPT !.flClientProgress = [x \in {clientId} |-> progress]]

setFLClientProgress(s, clientId, progress) ==
    [s EXCEPT !.flClientProgress = Put(s.flClientProgress, clientId, progress)]

\* mutation: the prediction feed is reset with the session views
clearFLProgress_ClearsFeed(s) ==
    [s EXCEPT !.flClientProgress = EmptyMap, !.flGlobalProgress = NullObj,
              !.latestPredictions = <<>>]

\* mutation: the session record is reset, the client map is kept
clearFLProgress_KeepsClients(s) ==
    [s EXCEPT !.flGlobalProgress = NullObj]

clearFLProgress(s) ==
    [s EXCEPT !.flClientProgress = EmptyMap, !.flGlobalProgress = NullObj]

setFLGlobalProgress(s, progress) ==
    [s EXCEPT !.flGlobalProgress = progress]

\* mutation: a round that is already in the sequence is not appended again
addFLRoundResult_Dedups(s, round, loss, accuracy) ==
    IF \E i \in 1..Len(s.flRoundResults) : s.flRoundResults[i].round = round
    THEN s
    ELSE [s EXCEPT !.flRoundResults =
             Append(s.flRoundResults, [round |-> round, loss |-> loss, accuracy |-> accuracy])]

\* mutation: the new result is put in front
addFLRoundResult_Prepends(s, round, loss, accuracy) ==
    [s EXCEPT !.flRoundResults =
        <<[round |-> round, loss |-> loss, accuracy |-> accuracy]>> \o s.flRoundResults]

addFLRoundResult(s, round, loss, accuracy) ==
    [s EXCEPT !.flRoundResults =
        Append(s.flRoundResults, [round |-> round, loss |-> loss, accuracy |-> accuracy])]

clearFLRoundResults(s) ==
    [s EXCEPT !.flRoundResults = <<>>]

addFLClientRoundEntry(s, clientId, round, loss, accuracy) ==
    LET prev == IF clientId \in DOMAIN s.flClientRoundHistory
                THEN s.flClientRoundHistory[clientId] ELSE <<>>
    IN [s EXCEPT !.flClientRoundHistory =
           Put(s.flClientRoundHistory, clientId,
               Append(prev, [round |-> round, loss |-> loss, accuracy |-> accuracy]))]

clearFLClientRoundHistory(s) ==
    [s EXCEPT !.flClientRoundHistory = EmptyMap]

\* mutation: the other device statuses are dropped
setDeviceStatus_NoSpread(s, id, status) ==
    [s EXCEPT !.deviceStatuses = [x \in {id} |-> status]]

setClientStatus(s, id, status) ==
    [s EXCEPT !.clientStatuses = Put(s.clientStatuses, id, status)]

setDeviceStatus(s, id, status) ==
    [s EXCEPT !.deviceStatuses = Put(s.deviceStatuses, id, status)]

\* mutation: once connected the flag never goes back
setWsConnected_Sticky(s, v) ==
    [s EXCEPT !.wsConnected = @ \/ v]

\* mutation: a disconnect also empties the prediction feed
setWsConnected_Clears(s, v) ==
    [s EXCEPT !.wsConnected = v,
              !.latestPredictions = IF v THEN s.latestPredictions ELSE <<>>]

setWsConnected(s, v) ==
    [s EXCEPT !.wsConnected = v]

InitialStore ==
    [latestPredictions |-> <<>>,
     flClientProgress |-> EmptyMap,
     flGlobalProgress |-> NullObj,
     flRoundResults |-> <<>>,
     flClientRoundHistory |-> EmptyMap,
     clientStatuses |-> EmptyMap,
     deviceStatuses |-> EmptyMap,
     wsConnected |-> FALSE]

\* ---- records ----
\* An FLClientProgress object.  Of the optional per-batch fields the model
\* keeps batches_processed, grand_total_batches and samples_processed; the
\* others (batch, total_batches, total_samples, throughput, eta_seconds,
\* current_loss, current_accuracy, last_update_time) are copied from the
\* event exactly as samples_processed is.
ClientProgress(cid, status, epoch, totalEpochs, loss, acc, samples, pct, bp, gtb, sp) ==
    [client_id |-> cid, status |-> status, current_epoch |-> epoch,
     total_epochs |-> totalEpochs, local_loss |-> loss, local_accuracy |-> acc,
     num_samples |-> samples, progress_pct |-> pct,
     batches_processed |-> bp, grand_total_batches |-> gtb, samples_processed |-> sp]

\* the object literal written for a client that has reported nothing yet
Placeholder(cid, status) ==
    ClientProgress(cid, status, 0, 0, 0, 0, 0, 0, UNDEF, UNDEF, UNDEF)

GlobalProgress(training, cur, total, loss, acc, method, he, expected) ==
    [is_training |-> training, current_round |-> cur, total_rounds |-> total,
     global_loss |-> loss, global_accuracy |-> acc, aggregation_method |-> method,
     use_he |-> he, expected_clients |-> expected]

\* existing?.field
Opt(g, field, undef) == IF g = NullObj THEN undef ELSE g[field]

\* ---- WebSocketProvider.tsx: prediction ----
\* The LivePrediction object built from an event.  Of its fields the model
\* keeps id, device_id, score, label and timestamp; device_name, client_id,
\* confidence, attack_type, inference_latency_ms and model_version are copied
\* from the payload exactly as label is.
PredictionRecord(d, timestamp) ==
    [id |-> d.id, device_id |-> d.device_id, score |-> d.score, label |-> d.label,
     timestamp |-> timestamp]

PredictionHandler(s, d, timestamp) ==
    addPrediction(s, PredictionRecord(d, timestamp))

\* ---- WebSocketProvider.tsx: client_status, device_status ----
\* x ?? y, for a string
NullishStr(x, y) == IF x = NoStr \/ x = NullStr THEN y ELSE x

ClientStatusRecord(d) ==
    [client_id |-> d.client_id, client_name |-> d.client_name, status |-> d.status,
     container_status |-> NullishStr(d.container_status, "not_found")]

ClientStatusHandler(s, d) ==
    setClientStatus(s, d.client_id, ClientStatusRecord(d))

DeviceStatusRecord(d) ==
    [device_id |-> d.device_id, device_name |-> d.device_name, status |-> d.status]

DeviceStatusHandler(s, d) ==
    setDeviceStatus(s, d.device_id, DeviceStatusRecord(d))

\* ---- WebSocketProvider.tsx: fl_progress ----
\* phase -> status of the client card
PhaseToStatus(phase) ==
    CASE phase = "training" -> "training"
      [] phase = "sending_weights" -> "sending"
      [] phase = "encrypting" -> "encrypting"
      [] phase = "aggregating" -> "done"
      [] OTHER -> "idle"

Min(x, y) == IF x < y THEN x ELSE y

\* progress percentage: batch progress first, else epoch progress; the
\* payloads of the model make every quotient exact
ProgressPct(d) ==
    LET epoch == Nullish(d.epoch, 0)
        totalEpochs == Nullish(d.total_epochs, 0)
        batchesProcessed == Nullish(d.batches_processed, 0)
        grandTotalBatches == Nullish(d.grand_total_batches, 0)
        pct == IF grandTotalBatches > 0 /\ batchesProcessed > 0
               THEN Min(100, (batchesProcessed * 100) \div grandTotalBatches)
               ELSE IF totalEpochs > 0 /\ epoch > 0
                    THEN Min(100, (epoch * 100) \div totalEpochs)
                    ELSE 0
    IN IF d.phase = "sending_weights" THEN 100 ELSE pct

\* x || undefined, for a number
OrUndefined(x) == IF x = 0 THEN UNDEF ELSE x

\* the object handed to setFLClientProgress
ProgressRecord(d) ==
    ClientProgress(d.client_id,
                   PhaseToStatus(d.phase),
                   Nullish(d.epoch, 0),
                   Nullish(d.total_epochs, 0),
                   Nullish(d.epoch_loss, Nullish(d.loss, 0)),
                   Nullish(d.local_accuracy, Nullish(d.accuracy, 0)),
                   Nullish(d.num_samples, 0),
                   ProgressPct(d),
                   OrUndefined(Nullish(d.batches_processed, 0)),
                   OrUndefined(Nullish(d.grand_total_batches, 0)),
                   Nullish(d.samples_processed, UNDEF))

\* the object handed to setFLGlobalProgress when the event carries a round
ProgressGlobal(existing, d) ==
    GlobalProgress(TRUE,
                   d.round,
                   Nullish(d.total_rounds, Nullish(Opt(existing, "total_rounds", UNDEF), 0)),
                   Nullish(Opt(existing, "global_loss", UNDEF), NULL),
                   Nullish(Opt(existing, "global_accuracy", UNDEF), NULL),
                   NoStr,
                   Opt(existing, "use_he", NoStr),
                   UNDEF)

FlProgressHandler(s, d) ==
    IF d.client_id = NoStr \/ d.client_id = ""
    THEN s
    ELSE LET s1 == setFLClientProgress(s, d.client_id, ProgressRecord(d))
         IN IF d.round # UNDEF /\ d.round # NULL
            THEN setFLGlobalProgress(s1, ProgressGlobal(s1.flGlobalProgress, d))
            ELSE s1

\* ---- WebSocketProvider.tsx: fl_round ----
\* mutation: the session record keeps no metrics of the round
RoundGlobal_NoMetrics(d) ==
    LET totalRounds == Nullish(d.total_rounds, d.round_number)
        currentRound == d.round_number
    IN GlobalProgress(JsLess(currentRound, totalRounds), currentRound, totalRounds,
                      NULL, NULL, d.aggregation_method, NoStr, UNDEF)

RoundGlobal(d) ==
    LET totalRounds == Nullish(d.total_rounds, d.round_number)
        currentRound == d.round_number
    IN GlobalProgress(JsLess(currentRound, totalRounds), currentRound, totalRounds,
                      d.global_loss, d.global_accuracy, d.aggregation_method,
                      NoStr, UNDEF)

\* the object written for a client listed in client_metrics
DoneRecord(cm) ==
    ClientProgress(cm.client_id, "done", 0, 0, cm.local_loss, cm.local_accuracy,
                   cm.num_samples, 100, UNDEF, UNDEF, UNDEF)

\* body of `for (const cm of clientMetrics)` for one element
ApplyClientMetric(s, cm, round) ==
    addFLClientRoundEntry(setFLClientProgress(s, cm.client_id, DoneRecord(cm)),
                          cm.client_id, round, cm.local_loss, cm.local_accuracy)

\* mutation: only the first element of client_metrics is applied
ApplyClientMetrics_FirstOnly(s, cms, round) ==
    IF cms = <<>> THEN s ELSE ApplyClientMetric(s, Head(cms), round)

RECURSIVE ApplyClientMetrics(_, _, _)
ApplyClientMetrics(s, cms, round) ==
    IF cms = <<>> THEN s
    ELSE ApplyClientMetrics(ApplyClientMetric(s, Head(cms), round), Tail(cms), round)

FlRoundHandler(s, d) ==
    LET s1 == addFLRoundResult(s, d.round_number, d.global_loss, d.global_accuracy)
        s2 == setFLGlobalProgress(s1, RoundGlobal(d))
    IN IF Has(d, "client_metrics")
       THEN ApplyClientMetrics(s2, d.client_metrics, d.round_number)
       ELSE s2

\* ---- WebSocketProvider.tsx: training_start ----
\* for (const cid of ids) setFLClientProgress(cid, placeholder)
RECURSIVE SeedClients(_, _, _)
SeedClients(s, ids, status) ==
    IF ids = {} THEN s
    ELSE LET cid == CHOOSE c \in ids : TRUE
         IN SeedClients(setFLClientProgress(s, cid, Placeholder(cid, status)),
                        ids \ {cid}, status)

TrainingStartGlobal(existing, d) ==
    GlobalProgress(TRUE, 0,
                   Nullish(d.total_rounds, Nullish(d.num_rounds, 0)),
                   NULL, NULL, NoStr, d.use_he,
                   IF Has(d, "client_ids") THEN Cardinality(d.client_ids)
                   ELSE Opt(existing, "expected_clients", UNDEF))

TrainingStartHandler(s, d) ==
    LET s1 == setFLGlobalProgress(s, TrainingStartGlobal(s.flGlobalProgress, d))
    IN IF Has(d, "client_ids") THEN SeedClients(s1, d.client_ids, "idle") ELSE s1

\* ---- WebSocketProvider.tsx: training_complete ----
TrainingCompleteGlobal(d) ==
    LET totalRounds == Nullish(d.total_rounds, Nullish(d.rounds_completed, 0))
    IN GlobalProgress(FALSE, totalRounds, totalRounds,
                      Nullish(d.global_loss, NULL), Nullish(d.global_accuracy, NULL),
                      NoStr, NoStr, UNDEF)

\* mutation: progress is cleared as soon as training completes
TrainingCompleteHandler_Clears(s, d) ==
    setFLGlobalProgress(clearFLProgress(s), TrainingCompleteGlobal(d))

TrainingCompleteHandler(s, d) ==
    setFLGlobalProgress(s, TrainingCompleteGlobal(d))

\* ---- FLTrainingPage.tsx: handleStart ----
\* mutation: the explicit selection is ignored
OptimisticClientIds_AllRegistered(cfg, registered) == registered

\* cfg.client_ids ?? clients.map((c) => c.client_id)
OptimisticClientIds(cfg, registered) ==
    IF Has(cfg, "client_ids") THEN cfg.client_ids ELSE registered

\* mutation: the round results and the per-client history are not cleared
HandleStartSeed_KeepsHistory(s, cfg, registered) ==
    LET s1 == clearFLProgress(s)
        optimisticClientIds == OptimisticClientIds(cfg, registered)
        s4 == setFLGlobalProgress(s1,
                  GlobalProgress(TRUE, 0, cfg.num_rounds, NULL, NULL, NoStr,
                                 cfg.use_he, Cardinality(optimisticClientIds)))
    IN SeedClients(s4, optimisticClientIds, "waiting")

\* handleStart up to `await flApi.start(cfg)`
HandleStartSeed(s, cfg, registered) ==
    LET s1 == clearFLProgress(s)
        s2 == clearFLRoundResults(s1)
        s3 == clearFLClientRoundHistory(s2)
        optimisticClientIds == OptimisticClientIds(cfg, registered)
        s4 == setFLGlobalProgress(s3,
                  GlobalProgress(TRUE, 0, cfg.num_rounds, NULL, NULL, NoStr,
                                 cfg.use_he, Cardinality(optimisticClientIds)))
    IN SeedClients(s4, optimisticClientIds, "waiting")

\* mutation: nothing is deleted
RemoveNotInResponse_KeepsAll(s, keys, responseSet) == s

\* for (const cid of Object.keys(currentProgress)) if (!responseSet.has(cid)) delete
RECURSIVE RemoveNotInResponse(_, _, _)
RemoveNotInResponse(s, keys, responseSet) ==
    IF keys = {} THEN s
    ELSE LET cid == CHOOSE c \in keys : TRUE
             updated == [k \in (DOMAIN s.flClientProgress) \ {cid} |-> s.flClientProgress[k]]
         IN RemoveNotInResponse(
                IF cid \notin responseSet THEN [s EXCEPT !.flClientProgress = updated] ELSE s,
                keys \ {cid}, responseSet)

\* mutation: every id of the response is written as a fresh placeholder
AddMissingFromResponse_Reseeds(s, ids, currentProgress) ==
    SeedClients(s, ids, "waiting")

\* for (const cid of resp.client_ids) if (!currentProgress[cid]) setFLClientProgress(placeholder)
RECURSIVE AddMissingFromResponse(_, _, _)
AddMissingFromResponse(s, ids, currentProgress) ==
    IF ids = {} THEN s
    ELSE LET cid == CHOOSE c \in ids : TRUE
         IN AddMissingFromResponse(
                IF cid \notin DOMAIN currentProgress
                THEN setFLClientProgress(s, cid, Placeholder(cid, "waiting")) ELSE s,
                ids \ {cid}, currentProgress)

\* handleStart after the await, when the request succeeded
ReconcileWithResponse(s, resp) ==
    IF Has(resp, "client_ids")
    THEN LET currentProgress == s.flClientProgress
             s1 == RemoveNotInResponse(s, DOMAIN currentProgress, resp.client_ids)
         IN AddMissingFromResponse(s1, resp.client_ids, currentProgress)
    ELSE s

\* mutation: the optimistic state is left in place
RevertOptimistic_Nothing(s) == s

\* the catch block of handleStart
RevertOptimistic(s) == clearFLProgress(s)

\* e instanceof Error ? e.message : 'Failed to start training'
StartErrorMessage(e) == IF e.is_error THEN e.message ELSE "Failed to start training"

\* ---- FLTrainingPage.tsx: handleStop ----
\* e instanceof Error ? e.message : 'Failed to stop training'
StopErrorMessage(e) == IF e.is_error THEN e.message ELSE "Failed to stop training"

\* ---- WebSocketProvider.tsx: the subscription effect ----
\* mutation: the prediction handler is subscribed under a misspelt type
KnownTypes_Typo ==
    {"predictions", "fl_progress", "fl_round", "training_start", "training_complete",
     "client_status", "device_status"}

\* the event types the effect subscribes a handler to
KnownTypes ==
    {"prediction", "fl_progress", "fl_round", "training_start", "training_complete",
     "client_status", "device_status"}

\* the handler subscribed under each type, applied to a message
Handler(type, s, msg) ==
    CASE type = "prediction" -> PredictionHandler(s, msg.data, msg.timestamp)
      [] type = "fl_progress" -> FlProgressHandler(s, msg.data)
      [] type = "fl_round" -> FlRoundHandler(s, msg.data)
      [] type = "training_start" -> TrainingStartHandler(s, msg.data)
      [] type = "training_complete" -> TrainingCompleteHandler(s, msg.data)
      [] type = "client_status" -> ClientStatusHandler(s, msg.data)
      [] type = "device_status" -> DeviceStatusHandler(s, msg.data)

\* The hook (hooks/useWebSocket) as the provider uses it.
\* subscribe(type, handler): the handler is live, next to the handlers that
\* are already live under the type; the handle returned for it has not been
\* called
Subscribe(t, type) ==
    [t EXCEPT !.subs = @ \cup {type},
              !.released = [x \in (DOMAIN @) \cup {type} |-> IF x = type THEN 0 ELSE @[x]],
              !.live = [x \in (DOMAIN @) \cup {type} |->
                           IF x = type
                           THEN (IF x \in DOMAIN @ THEN @[x] ELSE 0) + 1
                           ELSE @[x]]]

\* a call of the handle subscribe returned: its handler is no longer live
Unsubscribe(t, type) ==
    LET left == IF type \in DOMAIN t.live /\ t.live[type] > 0
                THEN t.live[type] - 1
                ELSE 0
    IN [t EXCEPT !.subs = IF left = 0 THEN @ \ {type} ELSE @,
                 !.released[type] = @ + 1,
                 !.live[type] = left]

\* n handlers of the type of the message run one after the other
RECURSIVE Dispatch(_, _, _)
Dispatch(n, s, msg) ==
    IF n = 0 THEN s ELSE Dispatch(n - 1, Handler(msg.type, s, msg), msg)

\* a message is handed to every handler that is live under its type
TransportDeliver(t, s, msg) ==
    IF msg.type \in t.subs THEN Dispatch(t.live[msg.type], s, msg) ELSE s

\* unsubs.push(subscribe(type, handler)), for each type
RECURSIVE SubscribeAll(_, _)
SubscribeAll(t, types) ==
    IF types = {} THEN t
    ELSE LET type == CHOOSE x \in types : TRUE
         IN SubscribeAll(Subscribe(t, type), types \ {type})

\* mutation: the teardown releases every handle but the one of the prediction handler
Teardown_KeepsPrediction(t, unsubs) ==
    [t EXCEPT !.subs = @ \ (unsubs \ {"prediction"}),
              !.released = [x \in DOMAIN @ |->
                              IF x \in unsubs \ {"prediction"} THEN @[x] + 1 ELSE @[x]],
              !.live = [x \in DOMAIN @ |->
                          IF x \in unsubs \ {"prediction"} THEN 0 ELSE @[x]]]

\* unsubs.forEach((u) => u())
RECURSIVE Teardown(_, _)
Teardown(t, unsubs) ==
    IF unsubs = {} THEN t
    ELSE LET u == CHOOSE x \in unsubs : TRUE
         IN Teardown(Unsubscribe(t, u), unsubs \ {u})

\* the hook before the provider mounts: not connected, no subscription
InitialTransport ==
    [isConnected |-> FALSE, subs |-> {}, released |-> [t \in KnownTypes |-> 0],
     live |-> [t \in KnownTypes |-> 0]]

\* the provider before it mounts: no effect has run, no teardown exists
InitialRoot ==
    [attached |-> FALSE, unsubs |-> {}, detaches |-> 0]

\* ---- FLTrainingPage.tsx: chartData ----
\* the two arrival orders of the polled list and the live results
Orders == {"live_first", "polled_first"}

\* the page before either has arrived
InitialRun == [rounds |-> <<>>, live |-> <<>>, chart |-> <<>>]

\* x ? +(x).toFixed(n) : null, for a number given in units of a tenth of the
\* last digit kept: null, undefined and 0 are falsy, anything else is rounded
\* to the nearest unit
ToFixedOrNull(x) ==
    IF x = NULL \/ x = UNDEF \/ x = 0 THEN NULL ELSE (x + 5) \div 10

\* the session counter after the first i polled rounds: the number of rounds
\* numbered 1 among them
SessionAt(rounds, i) ==
    Cardinality({j \in 1..i : rounds[j].round_number = 1})

\* `S${session}·R${round}`
SessionLabel(session, round) == [prefix |-> "S", s |-> session, r |-> round]

\* `R${round}`
PlainLabel(round) == [prefix |-> "R", s |-> 0, r |-> round]

\* the row pushed for the i-th polled round; accuracy is given in units of
\* 0.0001 and shown in tenths of a percent, loss is given in units of 0.00001
\* and shown in units of 0.0001
PolledRow(rounds, i) ==
    [round |-> SessionLabel(SessionAt(rounds, i), rounds[i].round_number),
     roundNum |-> rounds[i].round_number,
     accuracy |-> ToFixedOrNull(rounds[i].global_accuracy),
     loss |-> ToFixedOrNull(rounds[i].global_loss),
     session |-> SessionAt(rounds, i),
     id |-> rounds[i].id]

\* the row pushed for a live round result
LiveRow(lr, sessionNum) ==
    [round |-> IF sessionNum > 0 THEN SessionLabel(sessionNum, lr.round)
               ELSE PlainLabel(lr.round),
     roundNum |-> lr.round,
     accuracy |-> ToFixedOrNull(lr.accuracy),
     loss |-> ToFixedOrNull(lr.loss),
     session |-> IF sessionNum = 0 THEN 1 ELSE sessionNum,
     id |-> 0]

\* the body of the chartData memo; a key `${round}_${session}` is the pair
ChartData(rounds, liveRoundResults) ==
    LET sessionNum == SessionAt(rounds, Len(rounds))
        data == [i \in 1..Len(rounds) |-> PolledRow(rounds, i)]
        seenIds == {<<rounds[i].round_number, sessionNum>> : i \in 1..Len(rounds)}
        NotSeen(lr) == <<lr.round, IF sessionNum = 0 THEN 1 ELSE sessionNum>> \notin seenIds
        fresh == SelectSeq(liveRoundResults, NotSeen)
    IN data \o [i \in 1..Len(fresh) |-> LiveRow(fresh[i], sessionNum)]

\* mutation: liveRoundResults is missing from the dependency list
ChartMemo_StaleDeps(prev, roundsChanged, liveChanged, rounds, liveRoundResults) ==
    IF roundsChanged THEN ChartData(rounds, liveRoundResults) ELSE prev

\* useMemo(..., [rounds, liveRoundResults]): the value is recomputed when a
\* dependency is a new array, and kept otherwise
ChartMemo(prev, roundsChanged, liveChanged, rounds, liveRoundResults) ==
    IF roundsChanged \/ liveChanged THEN ChartData(rounds, liveRoundResults) ELSE prev

\* ---- TrafficMonitorPage.tsx: mergedPredictions ----
\* the page after construction, opened without a device_id in the URL
InitialMonitor ==
    [selectedDevice |-> "", paused |-> FALSE, predictions |-> <<>>, inFlight |-> {}]

\* new Date(timestamp).getTime(): a timestamp string is its instant together
\* with the way the instant is written
GetTime(timestamp) == timestamp.at

\* String(x), for a device id (a string, or undefined)
String(x) == x

\* the live predictions of the selected device, none while paused or while no
\* device is selected
DeviceLivePreds(m, livePredictions) ==
    IF m.paused \/ m.selectedDevice = "" THEN <<>>
    ELSE LET OfSelected(p) == String(p.device_id) = String(m.selectedDevice)
         IN SelectSeq(livePredictions, OfSelected)

\* mutation: the id is part of the key
MergeKey_WithId(device, p) == <<device, p.timestamp, p.id>>

\* `${device}-${p.timestamp}`
MergeKey(device, p) == <<device, p.timestamp>>

\* the rows of a list whose key no earlier row of the list has, keys[i] being
\* the key of list[i]
FirstOfKey(keys, list) ==
    LET Keep(i) == \A j \in 1..(i - 1) : keys[j] # keys[i]
        kept == {i \in 1..Len(list) : Keep(i)}
        Nth(k) == CHOOSE i \in kept : Cardinality({j \in kept : j < i}) = k - 1
    IN [k \in 1..Cardinality(kept) |-> list[Nth(k)]]

\* the row pushed for a live prediction: lp.id ?? 0, and no device_id
LiveMergedRow(lp) ==
    [id |-> Nullish(lp.id, 0), device_id |-> NoStr, score |-> lp.score,
     label |-> lp.label, timestamp |-> lp.timestamp]

\* rows.sort((a, b) => new Date(a.timestamp).getTime() - new Date(b.timestamp).getTime()),
\* a stable sort
SortByTime(rows) ==
    LET Before(i, j) ==
            \/ GetTime(rows[i].timestamp) < GetTime(rows[j].timestamp)
            \/ GetTime(rows[i].timestamp) = GetTime(rows[j].timestamp) /\ i < j
        Rank(j) == Cardinality({i \in 1..Len(rows) : Before(i, j)}) + 1
    IN [k \in 1..Len(rows) |-> rows[CHOOSE j \in 1..Len(rows) : Rank(j) = k]]

\* the body of the mergedPredictions memo: live rows first, then the polled
\* rows whose key is new, all keyed under the selected device, then sorted
MergedPredictions(m, livePredictions) ==
    LET deviceLivePreds == DeviceLivePreds(m, livePredictions)
        LiveKey(lp) == MergeKey(lp.device_id, lp)
        PolledKey(p) == MergeKey(m.selectedDevice, p)
        live == FirstOfKey([i \in 1..Len(deviceLivePreds) |-> LiveKey(deviceLivePreds[i])],
                           deviceLivePreds)
        seen == {LiveKey(live[i]) : i \in 1..Len(live)}
        polled == FirstOfKey([i \in 1..Len(m.predictions) |-> PolledKey(m.predictions[i])],
                             m.predictions)
        Fresh(p) == PolledKey(p) \notin seen
    IN SortByTime([i \in 1..Len(live) |-> LiveMergedRow(live[i])]
                  \o SelectSeq(polled, Fresh))

\* ---- authStore.ts, api client, LoginPage.tsx, ProtectedRoute ----
InitialAuth ==
    [token |-> NullStr, refreshToken |-> NullStr, user |-> NullStr,
     isAuthenticated |-> FALSE, isLoading |-> FALSE]

\* logout()
logout(a) ==
    [a EXCEPT !.token = NullStr, !.refreshToken = NullStr, !.user = NullStr,
              !.isAuthenticated = FALSE]

\* the response interceptor of the api client on a rejected request:
\* 401 -> logout(); status 0 stands for a request without a response
ResponseInterceptor(a, status) ==
    IF status = 401 THEN logout(a) ELSE a

\* login up to its first await: set({ isLoading: true })
LoginBegin(a) ==
    [a EXCEPT !.isLoading = TRUE]

\* login after authApi.login resolved, up to its second await
LoginTokens(a, tokens) ==
    [a EXCEPT !.token = tokens.access_token, !.refreshToken = tokens.refresh_token,
              !.isAuthenticated = TRUE, !.isLoading = FALSE]

\* login after authApi.me resolved: set({ user })
LoginUser(a, user) ==
    [a EXCEPT !.user = user]

\* the catch block of login: set({ isLoading: false }); throw err
LoginCatch(a) ==
    [a EXCEPT !.isLoading = FALSE]

\* ProtectedRoute renders its children
Admitted(a) ==
    ~(~a.isAuthenticated \/ a.token = NullStr)

\* LoginPage before a submit; `failed` is the status of the request that made
\* the last login reject
InitialLoginPage ==
    [error |-> "", phase |-> "idle", outcome |-> "none", failed |-> UNDEF,
     navigated |-> FALSE, submits |-> 0]

\* ---- inputs ----
\* round numbers carried by events and requested by a start
Rounds == {1, 2}
\* the total-round count the events of a two-round session carry
LastRound == CHOOSE r \in Rounds : \A q \in Rounds : q <= r
OptBool == {"true", "false"}

\* what the config modal can hand to onStart: no client_ids when all clients
\* are selected, else the selection; the start button is disabled while the
\* selection is empty (ConfigModal, lines 92-111, 199-204)
StartConfigs(registered) ==
    IF registered = {} THEN {}
    ELSE {[num_rounds |-> n, use_he |-> he] : n \in Rounds, he \in OptBool}
         \cup {[num_rounds |-> LastRound, use_he |-> "true", client_ids |-> sel] :
                  sel \in {x \in SUBSET registered : x # {} /\ x # registered}}

\* responses of flApi.start
StartResponses ==
    {[status |-> "started"]}
    \cup {[status |-> "started", client_ids |-> l] : l \in SUBSET Ids}

\* fl_progress payloads: server-side progress without client_id, bare phase
\* changes, epoch progress of a round, batch progress
NoProgress ==
    [client_id |-> NoStr, phase |-> NoStr, epoch |-> UNDEF, total_epochs |-> UNDEF,
     epoch_loss |-> UNDEF, loss |-> UNDEF, local_accuracy |-> UNDEF, accuracy |-> UNDEF,
     num_samples |-> UNDEF, batches_processed |-> UNDEF, grand_total_batches |-> UNDEF,
     samples_processed |-> UNDEF, round |-> UNDEF, total_rounds |-> UNDEF]

FlProgressPayloads ==
    {[NoProgress EXCEPT !.phase = "aggregating", !.round = 1]}
    \cup {[NoProgress EXCEPT !.client_id = c, !.phase = "training"] : c \in {"a", "b"}}
    \cup {[NoProgress EXCEPT !.client_id = "c"]}
    \cup {[NoProgress EXCEPT !.client_id = "a", !.phase = ph] :
             ph \in {"sending_weights", "encrypting", "aggregating"}}
    \cup {[NoProgress EXCEPT !.client_id = c, !.phase = "training", !.epoch = 1,
                             !.total_epochs = 2, !.epoch_loss = 3, !.round = r] :
             c \in {"a", "c"}, r \in Rounds}
    \cup {[NoProgress EXCEPT !.client_id = "b", !.phase = "training", !.epoch = 2,
                             !.total_epochs = 2, !.epoch_loss = 3, !.round = r,
                             !.total_rounds = LastRound] :
             r \in Rounds}
    \cup {[NoProgress EXCEPT !.client_id = "a", !.phase = "training", !.epoch = 1,
                             !.total_epochs = 2, !.loss = 4, !.accuracy = 5,
                             !.num_samples = 6, !.batches_processed = 1,
                             !.grand_total_batches = 4, !.samples_processed = 7]}

\* client_metrics arrays of a round-completion event
ClientMetric(c) ==
    [client_id |-> c, local_loss |-> 3, local_accuracy |-> 5, num_samples |-> 6]

MetricArrays ==
    {<<ClientMetric("a")>>, <<ClientMetric("a"), ClientMetric("b")>>,
     <<ClientMetric("c"), ClientMetric("b")>>}

FlRoundPayloads ==
    {[round_number |-> r, total_rounds |-> t, global_loss |-> NULL,
      global_accuracy |-> NULL, aggregation_method |-> "fedavg"] :
        r \in Rounds, t \in {UNDEF, LastRound}}
    \cup {[round_number |-> r, total_rounds |-> LastRound, global_loss |-> 8,
           global_accuracy |-> 9, aggregation_method |-> "fedavg",
           client_metrics |-> cms] :
        r \in Rounds, cms \in MetricArrays}

TrainingStartPayloads ==
    {[total_rounds |-> t, num_rounds |-> UNDEF, use_he |-> NoStr] : t \in {UNDEF, LastRound}}
    \cup {[total_rounds |-> UNDEF, num_rounds |-> LastRound, use_he |-> "false",
           client_ids |-> l] : l \in {{"b", "c"}}}

TrainingCompletePayloads ==
    {[total_rounds |-> LastRound, rounds_completed |-> UNDEF, global_loss |-> 8,
      global_accuracy |-> 9],
     [total_rounds |-> UNDEF, rounds_completed |-> 1, global_loss |-> UNDEF,
      global_accuracy |-> UNDEF],
     [total_rounds |-> UNDEF, rounds_completed |-> UNDEF, global_loss |-> UNDEF,
      global_accuracy |-> UNDEF]}

\* prediction payloads (score in percent): with an id, without one, and
\* without device_id
PredictionPayloads ==
    {[id |-> 1, device_id |-> "d1", score |-> 90, label |-> "attack"],
     [id |-> UNDEF, device_id |-> "d2", score |-> 10, label |-> "benign"],
     [id |-> UNDEF, device_id |-> NoStr, score |-> 10, label |-> "benign"]}

\* timestamps of event envelopes; events need not arrive in timestamp order
Stamps == {1, 2}

\* device_status messages: two devices, the first with two statuses and both
\* timestamps, and one without device_id
DeviceStatusMessages ==
    {[type |-> "device_status", timestamp |-> t,
      data |-> [device_id |-> "d1", device_name |-> "cam", status |-> st]] :
        t \in Stamps, st \in {"online", "under_attack"}}
    \cup {[type |-> "device_status", timestamp |-> 1,
           data |-> [device_id |-> "d2", device_name |-> NoStr, status |-> "offline"]],
          [type |-> "device_status", timestamp |-> 2,
           data |-> [device_id |-> NoStr, device_name |-> NoStr, status |-> "online"]]}

\* client_status messages: client ids are numbers; one without client_id
ClientStatusMessages ==
    {[type |-> "client_status", timestamp |-> t,
      data |-> [client_id |-> 1, client_name |-> "bank_a", status |-> st,
                container_status |-> "running"]] :
        t \in Stamps, st \in {"active", "training"}}
    \cup {[type |-> "client_status", timestamp |-> 1,
           data |-> [client_id |-> 2, client_name |-> NoStr, status |-> "inactive",
                     container_status |-> NoStr]],
          [type |-> "client_status", timestamp |-> 2,
           data |-> [client_id |-> UNDEF, client_name |-> NoStr, status |-> "error",
                     container_status |-> NoStr]]}

\* a round-completion payload without round_number
MalformedFlRound ==
    [round_number |-> UNDEF, total_rounds |-> UNDEF, global_loss |-> 8,
     global_accuracy |-> 9, aggregation_method |-> NoStr]

\* the messages the dispatch root is driven with: of every known type a
\* well-formed one and, where the handler reads a required field, one
\* without it, and a message of a type nothing is subscribed to
LiveMessages ==
    {[type |-> "prediction", timestamp |-> 1, data |-> d] : d \in PredictionPayloads}
    \cup {m \in DeviceStatusMessages : m.timestamp = 2}
    \cup {m \in ClientStatusMessages : m.timestamp = 2}
    \cup {[type |-> "fl_progress", timestamp |-> 1, data |-> d] :
              d \in {x \in FlProgressPayloads :
                        x.client_id = NoStr \/ (x.client_id = "c" /\ x.round = 1)}}
    \cup {[type |-> "fl_round", timestamp |-> 1, data |-> d] :
              d \in {x \in FlRoundPayloads :
                        /\ x.round_number = 1
                        /\ Has(x, "client_metrics")
                        /\ Len(x.client_metrics) = 1}
                    \cup {MalformedFlRound}}
    \cup {[type |-> "training_start", timestamp |-> 1, data |-> d] :
              d \in {x \in TrainingStartPayloads : Has(x, "client_ids")}}
    \cup {[type |-> "training_complete", timestamp |-> 2, data |-> d] :
              d \in {x \in TrainingCompletePayloads : x.total_rounds # UNDEF}}
    \cup {[type |-> "heartbeat", timestamp |-> 2,
           data |-> [device_id |-> "d1", device_name |-> "cam", status |-> "online"]]}

\* timestamp strings: three instants, the first written in two ways
TimeStrings ==
    {[at |-> 1, form |-> "Z"], [at |-> 1, form |-> "+00:00"],
     [at |-> 2, form |-> "Z"], [at |-> 3, form |-> "Z"]}

\* the devices of the device list
TrafficDevices == {"d1", "d2"}

\* a persisted prediction as predictionsApi.deviceHistory returns it
PolledPrediction(id, device, at, form) ==
    [id |-> id, device_id |-> device, score |-> 90, label |-> "attack",
     timestamp |-> [at |-> at, form |-> form]]

\* histories of a device: none, one row, newest first, one instant written in
\* two ways, the same timestamp under two ids
Histories(device) ==
    {<<>>,
     <<PolledPrediction(5, device, 1, "Z")>>,
     <<PolledPrediction(6, device, 3, "Z"), PolledPrediction(5, device, 1, "Z")>>,
     <<PolledPrediction(8, device, 1, "+00:00"), PolledPrediction(5, device, 1, "Z")>>,
     <<PolledPrediction(9, device, 2, "Z"), PolledPrediction(7, device, 2, "Z")>>}

\* a persisted round as flApi.rounds returns it (accuracy in units of 0.0001,
\* loss in units of 0.00001)
PolledRound(id, n, loss, acc) ==
    [id |-> id, round_number |-> n, global_loss |-> loss, global_accuracy |-> acc]

\* polled round lists: empty, one session, a session not yet complete, two
\* sessions, a list that starts inside a session, rounds without metrics
PolledLists ==
    {<<>>,
     <<PolledRound(1, 1, 50004, 8000)>>,
     <<PolledRound(1, 1, 50004, 8000), PolledRound(2, 2, 40000, 8512)>>,
     <<PolledRound(1, 1, 50004, 8000), PolledRound(2, 2, 40000, 8512),
       PolledRound(3, 1, 45000, 8249)>>,
     <<PolledRound(1, 1, 50004, 8000), PolledRound(2, 1, NULL, NULL)>>,
     <<PolledRound(7, 2, 40000, 0)>>}

\* a live round result as addFLRoundResult stores it
LiveResult(n, loss, acc) == [round |-> n, loss |-> loss, accuracy |-> acc]

\* live round-result sequences: empty, one round, two rounds, a round the
\* session starts after, a repeated round, a round without metrics
LiveLists ==
    {<<>>,
     <<LiveResult(1, 50004, 8000)>>,
     <<LiveResult(1, 50004, 8000), LiveResult(2, 40000, 8512)>>,
     <<LiveResult(2, 40000, 8512)>>,
     <<LiveResult(1, 50004, 8000), LiveResult(1, 49996, 8005)>>,
     <<LiveResult(1, NULL, NULL), LiveResult(3, 30000, 9000)>>}

\* ---- the state machine ----
\* the history of a step of handler `op` taken in the current state: how many
\* clients, round results and per-client histories the store held before it
Ran(op) ==
    [op |-> op,
     keys |-> Cardinality(DOMAIN store.flClientProgress),
     results |-> Len(store.flRoundResults),
     history |-> Cardinality(DOMAIN store.flClientRoundHistory)]

Init ==
    /\ store = InitialStore
    /\ clients = {}
    /\ configOpen = FALSE
    /\ starting = FALSE
    /\ error = NullStr
    /\ nEvents = 0
    /\ last = [op |-> "init", keys |-> 0, results |-> 0, history |-> 0]
    /\ stopping = FALSE
    /\ transport = InitialTransport
    /\ root = InitialRoot
    /\ pushed = <<>>
    /\ arrived = <<>>
    /\ finals = [rounds |-> <<>>, live |-> <<>>]
    /\ runs = [o \in Orders |-> InitialRun]
    /\ monitor = InitialMonitor
    /\ auth = InitialAuth
    /\ loginPage = InitialLoginPage

\* const isLive = flGlobal?.is_training === true
isLive == store.flGlobalProgress # NullObj /\ store.flGlobalProgress.is_training

\* fetchData resolves: the registered-client list is replaced
FetchData ==
    /\ \E l \in ClientLists : clients' = l
    /\ UNCHANGED <<store, configOpen, starting, error, nEvents, last>>
    /\ UNCHANGED <<stopping, liveVars, mergeVars, viewVars>>

\* the "Start Training" button, rendered only while not live
OpenConfig ==
    /\ ~isLive
    /\ ~configOpen
    /\ configOpen' = TRUE
    /\ UNCHANGED <<store, clients, starting, error, nEvents, last>>
    /\ UNCHANGED <<stopping, liveVars, mergeVars, viewVars>>

\* the modal's Cancel / close button
CloseConfig ==
    /\ configOpen
    /\ configOpen' = FALSE
    /\ UNCHANGED <<store, clients, starting, error, nEvents, last>>
    /\ UNCHANGED <<stopping, liveVars, mergeVars, viewVars>>

\* the modal's start button: handleStart(cfg) up to the await
HandleStart(cfg) ==
    /\ configOpen
    /\ ~starting
    /\ last' = Ran("handle_start")
    /\ starting' = TRUE
    /\ error' = NullStr
    /\ store' = HandleStartSeed(store, cfg, clients)
    /\ UNCHANGED <<clients, configOpen, nEvents>>
    /\ UNCHANGED <<stopping, liveVars, mergeVars, viewVars>>

\* the start request resolved
StartOk(resp) ==
    /\ starting
    /\ last' = Ran("start_ok")
    /\ configOpen' = FALSE
    /\ store' = ReconcileWithResponse(store, resp)
    /\ starting' = FALSE
    /\ UNCHANGED <<clients, error, nEvents>>
    /\ UNCHANGED <<stopping, liveVars, mergeVars, viewVars>>

\* the start request rejected
StartFail(e) ==
    /\ starting
    /\ last' = Ran("start_fail")
    /\ store' = RevertOptimistic(store)
    /\ error' = StartErrorMessage(e)
    /\ starting' = FALSE
    /\ UNCHANGED <<clients, configOpen, nEvents>>
    /\ UNCHANGED <<stopping, liveVars, mergeVars, viewVars>>

\* the "Stop Training" button, rendered only while live: handleStop up to the await
HandleStop ==
    /\ isLive
    /\ ~stopping
    /\ stopping' = TRUE
    /\ error' = NullStr
    /\ UNCHANGED <<store, clients, configOpen, starting, nEvents, last>>
    /\ UNCHANGED <<liveVars, mergeVars, viewVars>>

\* the stop request resolved: fetchData() is called (its result arrives with
\* FetchData), then the finally block runs
StopOk ==
    /\ stopping
    /\ stopping' = FALSE
    /\ UNCHANGED <<store, clients, configOpen, starting, error, nEvents, last>>
    /\ UNCHANGED <<liveVars, mergeVars, viewVars>>

\* the stop request rejected: the catch block, then the finally block
StopFail(e) ==
    /\ stopping
    /\ error' = StopErrorMessage(e)
    /\ stopping' = FALSE
    /\ UNCHANGED <<store, clients, configOpen, starting, nEvents, last>>
    /\ UNCHANGED <<liveVars, mergeVars, viewVars>>

\* delivery of one WebSocket event to its subscribed handler
Deliver(op, newStore) ==
    /\ nEvents < MaxEvents
    /\ nEvents' = nEvents + 1
    /\ last' = Ran(op)
    /\ store' = newStore
    /\ UNCHANGED <<clients, configOpen, starting, error>>
    /\ UNCHANGED <<stopping, liveVars, mergeVars, viewVars>>

FlProgress(d) == Deliver("fl_progress", FlProgressHandler(store, d))

FlRound(d) == Deliver("fl_round", FlRoundHandler(store, d))

TrainingStart(d) == Deliver("training_start", TrainingStartHandler(store, d))

TrainingComplete(d) == Deliver("training_complete", TrainingCompleteHandler(store, d))

Next ==
    \/ FetchData
    \/ OpenConfig
    \/ CloseConfig
    \/ \E cfg \in StartConfigs(clients) : HandleStart(cfg)
    \/ \E resp \in StartResponses : StartOk(resp)
    \/ \E e \in Rejections : StartFail(e)
    \/ \E d \in FlProgressPayloads : FlProgress(d)
    \/ \E d \in FlRoundPayloads : FlRound(d)
    \/ \E d \in TrainingStartPayloads : TrainingStart(d)
    \/ \E d \in TrainingCompletePayloads : TrainingComplete(d)

Spec == Init /\ [][Next]_vars

\* the FL session together with the stop button
NextStop ==
    \/ FetchData
    \/ OpenConfig
    \/ CloseConfig
    \/ \E cfg \in StartConfigs(clients) : HandleStart(cfg)
    \/ \E resp \in StartResponses : StartOk(resp)
    \/ \E e \in Rejections : StartFail(e)
    \/ HandleStop
    \/ StopOk
    \/ \E e \in Rejections : StopFail(e)
    \/ \E d \in FlProgressPayloads : FlProgress(d)
    \/ \E d \in FlRoundPayloads : FlRound(d)
    \/ \E d \in TrainingStartPayloads : TrainingStart(d)
    \/ \E d \in TrainingCompletePayloads : TrainingComplete(d)

SpecStop == Init /\ [][NextStop]_vars

\* ---- the prediction ring buffer ----
\* number of predictions pushed in one behaviour, on top of the initial feed
MaxPushes == 2

\* the i-th prediction of the prefilled feed, stamped i
PrefillItem(i) == [id |-> i, device_id |-> "d1", score |-> 90, label |-> "attack"]

\* the store after the predictions lo..hi have been handled in that order,
\* the feed being split in halves so that the evaluation stays shallow
RECURSIVE PushRange(_, _, _)
PushRange(s, lo, hi) ==
    IF lo > hi THEN s
    ELSE IF lo = hi THEN PredictionHandler(s, PrefillItem(lo), lo)
    ELSE LET mid == (lo + hi) \div 2
         IN  CHOOSE r \in {PushRange(t, mid + 1, hi) : t \in {PushRange(s, lo, mid)}} : TRUE

\* the store after k predictions have been handled since construction
Prefilled(k) == PushRange(InitialStore, 1, k)

\* the predictions pushed to reach Prefilled(k), oldest first
PrefilledLog(k) ==
    [i \in 1..k |-> PredictionRecord(PrefillItem(i), i)]

\* a feed of any length up to one push past the capacity has been received
InitRing ==
    /\ \E k \in 0..(MAX_PREDICTIONS + 1) :
          /\ store = Prefilled(k)
          /\ pushed = PrefilledLog(k)
    /\ clients = {}
    /\ configOpen = FALSE
    /\ starting = FALSE
    /\ error = NullStr
    /\ nEvents = 0
    /\ last = [op |-> "init", keys |-> 0, results |-> 0, history |-> 0]
    /\ stopping = FALSE
    /\ transport = InitialTransport
    /\ root = InitialRoot
    /\ arrived = <<>>
    /\ finals = [rounds |-> <<>>, live |-> <<>>]
    /\ runs = [o \in Orders |-> InitialRun]
    /\ monitor = InitialMonitor
    /\ auth = InitialAuth
    /\ loginPage = InitialLoginPage

\* a prediction event reaches its handler; events are stamped in arrival order
Push(d) ==
    /\ nEvents < MaxPushes
    /\ nEvents' = nEvents + 1
    /\ store' = PredictionHandler(store, d, Len(pushed) + 1)
    /\ pushed' = Append(pushed, PredictionRecord(d, Len(pushed) + 1))
    /\ UNCHANGED <<clients, configOpen, starting, error, last, stopping>>
    /\ UNCHANGED <<transport, root, arrived, mergeVars, viewVars>>

NextRing == \E d \in PredictionPayloads : Push(d)

SpecRing == InitRing /\ [][NextRing]_vars

\* ---- the dispatch root ----
\* number of times the teardown of one effect run is called
MaxDetach == 2

\* the history of a step of the dispatch root: what happened, and what before it
LiveRan(op) == [op |-> op, prev |-> last.op]

\* the provider mounts: the connectivity effect mirrors isConnected and the
\* subscription effect subscribes one handler per type
Mount ==
    /\ ~root.attached
    /\ last' = LiveRan("mount")
    /\ store' = setWsConnected(store, transport.isConnected)
    /\ transport' = SubscribeAll(transport, KnownTypes)
    /\ root' = [attached |-> TRUE, unsubs |-> KnownTypes, detaches |-> 0]
    /\ UNCHANGED <<clients, configOpen, starting, error, nEvents, stopping>>
    /\ UNCHANGED <<pushed, arrived, mergeVars, viewVars>>

\* the teardown the subscription effect returned is called: by React when the
\* provider unmounts, and again by whoever still holds it
Detach ==
    /\ root.unsubs # {}
    /\ root.detaches < MaxDetach
    /\ last' = LiveRan("detach")
    /\ transport' = Teardown(transport, root.unsubs)
    /\ root' = [root EXCEPT !.attached = FALSE, !.detaches = @ + 1]
    /\ UNCHANGED <<store, clients, configOpen, starting, error, nEvents, stopping>>
    /\ UNCHANGED <<pushed, arrived, mergeVars, viewVars>>

\* isConnected changes; while the provider is mounted its connectivity effect
\* runs setWsConnected(isConnected)
SetConnected(v) ==
    /\ transport.isConnected # v
    /\ last' = LiveRan(IF v THEN "connect" ELSE "disconnect")
    /\ transport' = [transport EXCEPT !.isConnected = v]
    /\ store' = IF root.attached THEN setWsConnected(store, v) ELSE store
    /\ UNCHANGED <<root, clients, configOpen, starting, error, nEvents, stopping>>
    /\ UNCHANGED <<pushed, arrived, mergeVars, viewVars>>

Connect == SetConnected(TRUE)

Disconnect == SetConnected(FALSE)

\* the connected transport receives a message and dispatches it
Emit(msg) ==
    /\ transport.isConnected
    /\ nEvents < MaxEvents
    /\ nEvents' = nEvents + 1
    /\ last' = LiveRan(msg.type)
    /\ store' = TransportDeliver(transport, store, msg)
    /\ pushed' = IF msg.type = "prediction" /\ msg.type \in transport.subs
                 THEN Append(pushed, PredictionRecord(msg.data, msg.timestamp))
                 ELSE pushed
    /\ arrived' = IF msg.type \in {"client_status", "device_status"} \cap transport.subs
                  THEN Append(arrived, msg)
                  ELSE arrived
    /\ UNCHANGED <<transport, root, clients, configOpen, starting, error, stopping>>
    /\ UNCHANGED <<mergeVars, viewVars>>

\* mutation: the effect runs again without the cleanup of its previous run
Rerun_NoCleanup ==
    /\ root.attached
    /\ last' = LiveRan("rerun")
    /\ transport' = SubscribeAll(transport, KnownTypes)
    /\ root' = [attached |-> TRUE, unsubs |-> KnownTypes, detaches |-> 0]
    /\ UNCHANGED <<store, clients, configOpen, starting, error, nEvents, stopping>>
    /\ UNCHANGED <<pushed, arrived, mergeVars, viewVars>>

\* a dependency of the subscription effect changes (the subscribe function of
\* the hook) while the provider is mounted: React calls the cleanup of the
\* previous run and then runs the effect again
Rerun ==
    /\ root.attached
    /\ last' = LiveRan("rerun")
    /\ transport' = SubscribeAll(Teardown(transport, root.unsubs), KnownTypes)
    /\ root' = [attached |-> TRUE, unsubs |-> KnownTypes, detaches |-> 0]
    /\ UNCHANGED <<store, clients, configOpen, starting, error, nEvents, stopping>>
    /\ UNCHANGED <<pushed, arrived, mergeVars, viewVars>>

NextLive ==
    \/ Mount
    \/ Detach
    \/ Connect
    \/ Disconnect
    \/ \E msg \in LiveMessages : Emit(msg)

SpecLive == Init /\ [][NextLive]_vars

\* the dispatch root with re-runs of its subscription effect
NextRemount ==
    \/ Mount
    \/ Rerun
    \/ Detach
    \/ Connect
    \/ Disconnect
    \/ \E msg \in LiveMessages : Emit(msg)

SpecRemount == Init /\ [][NextRemount]_vars

\* ---- the chart merge ----
\* what both runs end with: any polled list and any live sequence
InitMerge ==
    /\ finals \in [rounds : PolledLists, live : LiveLists]
    /\ runs = [o \in Orders |-> InitialRun]
    /\ monitor = InitialMonitor
    /\ auth = InitialAuth
    /\ loginPage = InitialLoginPage
    /\ store = InitialStore
    /\ clients = {}
    /\ configOpen = FALSE
    /\ starting = FALSE
    /\ error = NullStr
    /\ nEvents = 0
    /\ last = [op |-> "init", keys |-> 0, results |-> 0, history |-> 0]
    /\ stopping = FALSE
    /\ transport = InitialTransport
    /\ root = InitialRoot
    /\ pushed = <<>>
    /\ arrived = <<>>

\* in run o the next live round result arrives (addFLRoundResult appends it)
\* and the memo is re-evaluated; in the run where polled data comes first,
\* not before the first polled list
LiveArrives(o) ==
    LET run == runs[o]
        live == SubSeq(finals.live, 1, Len(run.live) + 1)
    IN /\ Len(run.live) < Len(finals.live)
       /\ o = "polled_first" => (run.rounds # <<>> \/ finals.rounds = <<>>)
       /\ runs' = [runs EXCEPT ![o] =
              [rounds |-> run.rounds,
               live |-> live,
               chart |-> ChartMemo(run.chart, FALSE, TRUE, run.rounds, live)]]
       /\ UNCHANGED <<store, clients, configOpen, starting, error, nEvents, last, stopping>>
       /\ UNCHANGED <<liveVars, finals, viewVars>>

\* in run o a poll answers with the first k persisted rounds, more than the
\* page had (setRounds), and the memo is re-evaluated; in the run where live
\* data comes first, not before the first live result
PolledArrives(o, k) ==
    LET run == runs[o]
        rounds == SubSeq(finals.rounds, 1, k)
    IN /\ Len(run.rounds) < k
       /\ o = "live_first" => (run.live # <<>> \/ finals.live = <<>>)
       /\ runs' = [runs EXCEPT ![o] =
              [rounds |-> rounds,
               live |-> run.live,
               chart |-> ChartMemo(run.chart, TRUE, FALSE, rounds, run.live)]]
       /\ UNCHANGED <<store, clients, configOpen, starting, error, nEvents, last, stopping>>
       /\ UNCHANGED <<liveVars, finals, viewVars>>

NextMerge ==
    \/ \E o \in Orders : LiveArrives(o)
    \/ \E o \in Orders : \E k \in 1..Len(finals.rounds) : PolledArrives(o, k)

SpecMerge == InitMerge /\ [][NextMerge]_vars

\* ---- the traffic monitor ----
\* number of live predictions received in one behaviour
MaxLivePredictions == 2

\* a prediction event reaches its handler while the page is open
TrafficPrediction(d, timestamp) ==
    /\ nEvents < MaxLivePredictions
    /\ nEvents' = nEvents + 1
    /\ store' = PredictionHandler(store, d, timestamp)
    /\ UNCHANGED <<clients, configOpen, starting, error, last, stopping>>
    /\ UNCHANGED <<liveVars, mergeVars, viewVars>>

\* setSelectedDevice (the device list loads, or the select changes): the
\* effect requests the history of the device; the rows of the page stay until
\* an answer arrives
SelectDevice(device) ==
    /\ device # monitor.selectedDevice
    /\ monitor' = [monitor EXCEPT !.selectedDevice = device, !.inFlight = @ \cup {device}]
    /\ UNCHANGED <<store, clients, configOpen, starting, error, nEvents, last, stopping>>
    /\ UNCHANGED <<liveVars, mergeVars, authVars>>

\* a history request is answered: .then(setPredictions), whichever device is
\* selected by now
HistoryArrives(device, list) ==
    /\ device \in monitor.inFlight
    /\ monitor' = [monitor EXCEPT !.predictions = list, !.inFlight = @ \ {device}]
    /\ UNCHANGED <<store, clients, configOpen, starting, error, nEvents, last, stopping>>
    /\ UNCHANGED <<liveVars, mergeVars, authVars>>

\* a history request fails: .catch(() => setPredictions([]))
HistoryFails(device) ==
    /\ device \in monitor.inFlight
    /\ monitor' = [monitor EXCEPT !.predictions = <<>>, !.inFlight = @ \ {device}]
    /\ UNCHANGED <<store, clients, configOpen, starting, error, nEvents, last, stopping>>
    /\ UNCHANGED <<liveVars, mergeVars, authVars>>

\* the pause button: setPaused(!paused)
TogglePause ==
    /\ monitor' = [monitor EXCEPT !.paused = ~@]
    /\ UNCHANGED <<store, clients, configOpen, starting, error, nEvents, last, stopping>>
    /\ UNCHANGED <<liveVars, mergeVars, authVars>>

NextTraffic ==
    \/ \E d \in PredictionPayloads : \E timestamp \in TimeStrings : TrafficPrediction(d, timestamp)
    \/ \E device \in TrafficDevices : SelectDevice(device)
    \/ \E device \in TrafficDevices : \E list \in Histories(device) : HistoryArrives(device, list)
    \/ \E device \in TrafficDevices : HistoryFails(device)
    \/ TogglePause

SpecTraffic == Init /\ [][NextTraffic]_vars

\* ---- the round-result accumulator ----
\* number of round-completion events delivered in one behaviour
MaxRoundEvents == 3

\* the training page with its registered clients loaded and the config modal open
InitAccum ==
    /\ store = InitialStore
    /\ clients = {"a", "b"}
    /\ configOpen = TRUE
    /\ starting = FALSE
    /\ error = NullStr
    /\ nEvents = 0
    /\ last = [op |-> "init", keys |-> 0, results |-> 0, history |-> 0]
    /\ stopping = FALSE
    /\ transport = InitialTransport
    /\ root = InitialRoot
    /\ pushed = <<>>
    /\ arrived = <<>>
    /\ finals = [rounds |-> <<>>, live |-> <<>>]
    /\ runs = [o \in Orders |-> InitialRun]
    /\ monitor = InitialMonitor
    /\ auth = InitialAuth
    /\ loginPage = InitialLoginPage

\* a round-completion event reaches its handler; `arrived` logs the payloads
\* since the last clear
AccumRound(d) ==
    /\ nEvents < MaxRoundEvents
    /\ nEvents' = nEvents + 1
    /\ arrived' = Append(arrived, d)
    /\ store' = FlRoundHandler(store, d)
    /\ UNCHANGED <<clients, configOpen, starting, error, last, stopping>>
    /\ UNCHANGED <<transport, root, pushed, mergeVars, viewVars>>

\* handleStart(cfg) up to the await: the round results are cleared
AccumStart(cfg) ==
    /\ configOpen
    /\ ~starting
    /\ starting' = TRUE
    /\ error' = NullStr
    /\ arrived' = <<>>
    /\ store' = HandleStartSeed(store, cfg, clients)
    /\ UNCHANGED <<clients, configOpen, nEvents, last, stopping>>
    /\ UNCHANGED <<transport, root, pushed, mergeVars, viewVars>>

NextAccum ==
    \/ \E d \in FlRoundPayloads : AccumRound(d)
    \/ \E cfg \in StartConfigs(clients) : AccumStart(cfg)
    \/ \E resp \in StartResponses : StartOk(resp)

SpecAccum == InitAccum /\ [][NextAccum]_vars

\* ---- the training page on the mounted dispatch root ----
\* the provider is mounted on a connected transport, the training page has its
\* registered clients loaded and the config modal open
InitViews ==
    /\ store = setWsConnected(InitialStore, TRUE)
    /\ clients = {"a", "b"}
    /\ configOpen = TRUE
    /\ starting = FALSE
    /\ error = NullStr
    /\ nEvents = 0
    /\ last = [op |-> "init", keys |-> 0, results |-> 0, history |-> 0]
    /\ stopping = FALSE
    /\ transport = SubscribeAll([InitialTransport EXCEPT !.isConnected = TRUE], KnownTypes)
    /\ root = [attached |-> TRUE, unsubs |-> KnownTypes, detaches |-> 0]
    /\ pushed = <<>>
    /\ arrived = <<>>
    /\ finals = [rounds |-> <<>>, live |-> <<>>]
    /\ runs = [o \in Orders |-> InitialRun]
    /\ monitor = InitialMonitor
    /\ auth = InitialAuth
    /\ loginPage = InitialLoginPage

NextViews ==
    \/ \E cfg \in StartConfigs(clients) : HandleStart(cfg)
    \/ \E resp \in StartResponses : StartOk(resp)
    \/ \E e \in Rejections : StartFail(e)
    \/ Connect
    \/ Disconnect
    \/ \E msg \in LiveMessages : Emit(msg)

SpecViews == InitViews /\ [][NextViews]_vars

\* ---- the auth store ----
\* number of submits of the login form in one behaviour
MaxSubmits == 4

\* answers of authApi.login and authApi.me, and the statuses of rejected
\* requests (0: no response)
TokenResponses ==
    {[access_token |-> "t1", refresh_token |-> "r1"],
     [access_token |-> "t2", refresh_token |-> "r2"]}

Users == {"admin", "viewer"}

FailureStatuses == {0, 401, 500}

\* handleSubmit up to the await inside login
Submit ==
    /\ loginPage.phase = "idle"
    /\ ~auth.isLoading
    /\ loginPage.submits < MaxSubmits
    /\ auth' = LoginBegin(auth)
    /\ loginPage' = [loginPage EXCEPT !.error = "", !.phase = "credentials",
                                      !.outcome = "none", !.failed = UNDEF,
                                      !.navigated = FALSE,
                                      !.submits = @ + 1]
    /\ UNCHANGED <<store, clients, configOpen, starting, error, nEvents, last, stopping>>
    /\ UNCHANGED <<liveVars, mergeVars, monitor>>

\* authApi.login resolved
CredentialsAccepted(tokens) ==
    /\ loginPage.phase = "credentials"
    /\ auth' = LoginTokens(auth, tokens)
    /\ loginPage' = [loginPage EXCEPT !.phase = "profile"]
    /\ UNCHANGED <<store, clients, configOpen, starting, error, nEvents, last, stopping>>
    /\ UNCHANGED <<liveVars, mergeVars, monitor>>

\* a request of login rejected: the interceptor, the catch block of login,
\* then the catch block of handleSubmit
LoginRejected(status) ==
    /\ auth' = LoginCatch(ResponseInterceptor(auth, status))
    /\ loginPage' = [loginPage EXCEPT !.error = "Invalid username or password",
                                      !.phase = "idle", !.outcome = "rejected",
                                      !.failed = status]
    /\ UNCHANGED <<store, clients, configOpen, starting, error, nEvents, last, stopping>>
    /\ UNCHANGED <<liveVars, mergeVars, monitor>>

\* authApi.login rejected
CredentialsRejected(status) ==
    /\ loginPage.phase = "credentials"
    /\ LoginRejected(status)

\* authApi.me rejected
ProfileRejected(status) ==
    /\ loginPage.phase = "profile"
    /\ LoginRejected(status)

\* authApi.me resolved: login resolves and handleSubmit navigates to '/'
ProfileFetched(user) ==
    /\ loginPage.phase = "profile"
    /\ auth' = LoginUser(auth, user)
    /\ loginPage' = [loginPage EXCEPT !.phase = "idle", !.outcome = "resolved",
                                      !.navigated = TRUE]
    /\ UNCHANGED <<store, clients, configOpen, starting, error, nEvents, last, stopping>>
    /\ UNCHANGED <<liveVars, mergeVars, monitor>>

\* the logout button of the layout behind ProtectedRoute
Logout ==
    /\ Admitted(auth)
    /\ loginPage.phase = "idle"
    /\ auth' = logout(auth)
    /\ loginPage' = [loginPage EXCEPT !.navigated = FALSE]
    /\ UNCHANGED <<store, clients, configOpen, starting, error, nEvents, last, stopping>>
    /\ UNCHANGED <<liveVars, mergeVars, monitor>>

NextAuth ==
    \/ Submit
    \/ \E tokens \in TokenResponses : CredentialsAccepted(tokens)
    \/ \E status \in FailureStatuses : CredentialsRejected(status)
    \/ \E user \in Users : ProfileFetched(user)
    \/ \E status \in FailureStatuses : ProfileRejected(status)
    \/ Logout

SpecAuth == Init /\ [][NextAuth]_vars

\* ---- the keyed status stores ----
\* number of status events delivered in one behaviour
MaxStatusEvents == 3

\* a device_status event reaches its handler
DeviceStatus(msg) ==
    /\ nEvents < MaxStatusEvents
    /\ nEvents' = nEvents + 1
    /\ arrived' = Append(arrived, msg)
    /\ store' = DeviceStatusHandler(store, msg.data)
    /\ UNCHANGED <<clients, configOpen, starting, error, last, stopping>>
    /\ UNCHANGED <<transport, root, pushed, mergeVars, viewVars>>

\* a client_status event reaches its handler
ClientStatus(msg) ==
    /\ nEvents < MaxStatusEvents
    /\ nEvents' = nEvents + 1
    /\ arrived' = Append(arrived, msg)
    /\ store' = ClientStatusHandler(store, msg.data)
    /\ UNCHANGED <<clients, configOpen, starting, error, last, stopping>>
    /\ UNCHANGED <<transport, root, pushed, mergeVars, viewVars>>

NextStatus ==
    \/ \E msg \in DeviceStatusMessages : DeviceStatus(msg)
    \/ \E msg \in ClientStatusMessages : ClientStatus(msg)

SpecStatus == Init /\ [][NextStatus]_vars

\* ---- properties ----
\* the seeded id set a start request with configuration cfg asks for
Requested(cfg) == IF Has(cfg, "client_ids") THEN cfg.client_ids ELSE clients

\* the per-client history of c, empty when c has none
HistoryOf(s, c) ==
    IF c \in DOMAIN s.flClientRoundHistory THEN s.flClientRoundHistory[c] ELSE <<>>

\* sequence p is a prefix of sequence q
IsPrefix(p, q) == Len(p) <= Len(q) /\ SubSeq(q, 1, Len(p)) = p

\* C1: a start request issued over the data of a previous session leaves, right
\* after seeding, a client-progress map whose keys are exactly the requested
\* ids, empty round results and empty per-client history, and a session record
\* that carries nothing of the old one.
C1_NoCrossSessionBleed ==
    [][\A cfg \in StartConfigs(clients) :
          HandleStart(cfg) =>
             /\ DOMAIN store'.flClientProgress = Requested(cfg)
             /\ store'.flRoundResults = <<>>
             /\ DOMAIN store'.flClientRoundHistory = {}
             /\ store'.flGlobalProgress # NullObj
             /\ store'.flGlobalProgress.current_round = 0
             /\ store'.flGlobalProgress.global_loss = NULL
             /\ store'.flGlobalProgress.global_accuracy = NULL]_vars

\* a start request has just run over a store that held round results,
\* per-client history and more clients than are requested now
C1_Witness ==
    /\ last.op = "handle_start"
    /\ last.keys > Cardinality(DOMAIN store.flClientProgress)
    /\ last.results > 0
    /\ last.history > 0
    /\ store.flRoundResults = <<>>

\* C2: when the start response carries the authoritative list L, the keys of
\* the client-progress map become exactly L, and every id of L that was not
\* present is a fresh placeholder (waiting, zero progress).
C2_ReconciledKeysAreResponse ==
    [][\A resp \in StartResponses :
          (StartOk(resp) /\ Has(resp, "client_ids")) =>
             /\ DOMAIN store'.flClientProgress = resp.client_ids
             /\ \A c \in resp.client_ids \ DOMAIN store.flClientProgress :
                   store'.flClientProgress[c] = Placeholder(c, "waiting")]_vars

\* optimistic {a, b, c} reconciled with the list {a, b}
C2_Witness ==
    /\ last.op = "start_ok"
    /\ last.keys = 3
    /\ DOMAIN store.flClientProgress = {"a", "b"}

\* C3: reconciliation leaves the record of every id that is both in the map
\* and in the authoritative list exactly as it was.
C3_ReconcileKeepsRacedProgress ==
    [][\A resp \in StartResponses :
          (StartOk(resp) /\ Has(resp, "client_ids")) =>
             \A c \in (DOMAIN store.flClientProgress) \cap resp.client_ids :
                /\ c \in DOMAIN store'.flClientProgress
                /\ store'.flClientProgress[c] = store.flClientProgress[c]]_vars

\* the response changed the key set while one client had already reported
\* training progress and another had completed a round
C3_Witness ==
    /\ last.op = "start_ok"
    /\ last.keys # Cardinality(DOMAIN store.flClientProgress)
    /\ \E c \in DOMAIN store.flClientProgress :
          store.flClientProgress[c].status = "training"
    /\ \E c \in DOMAIN store.flClientProgress :
          store.flClientProgress[c].status = "done"

\* C4: a progress event whose round is older than the session's current round
\* leaves current_round and total_rounds unchanged.
C4_MonotonicRound ==
    [][\A d \in FlProgressPayloads :
          (/\ FlProgress(d)
           /\ d.round # UNDEF
           /\ store.flGlobalProgress # NullObj
           /\ store.flGlobalProgress.current_round > d.round) =>
             /\ store'.flGlobalProgress.current_round = store.flGlobalProgress.current_round
             /\ store'.flGlobalProgress.total_rounds = store.flGlobalProgress.total_rounds]_vars

\* C5: a rejected start request discards the optimistic session: no session
\* record, no client-progress entry, not live, and the message is shown.
C5_StartFailureRollsBack ==
    [][\A e \in Rejections :
          StartFail(e) =>
             /\ store'.flGlobalProgress = NullObj
             /\ DOMAIN store'.flClientProgress = {}
             /\ ~isLive'
             /\ ~starting'
             /\ error' # NullStr
             /\ error' = (IF e.is_error THEN e.message ELSE "Failed to start training")]_vars

\* a start request that had seeded placeholders has just been rejected
C5_Witness ==
    /\ last.op = "start_fail"
    /\ last.keys > 0
    /\ DOMAIN store.flClientProgress = {}
    /\ store.flGlobalProgress = NullObj
    /\ error = "Network Error"

\* C6: right after a start request, while it is in flight, the session record
\* is training at round 0 of the requested number of rounds and expects as
\* many clients as were seeded, and there is one waiting placeholder with zero
\* epoch and progress per requested id.
C6_OptimisticSeeding ==
    [][\A cfg \in StartConfigs(clients) :
          HandleStart(cfg) =>
             /\ starting'
             /\ store'.flGlobalProgress # NullObj
             /\ store'.flGlobalProgress.is_training = TRUE
             /\ store'.flGlobalProgress.current_round = 0
             /\ store'.flGlobalProgress.total_rounds = cfg.num_rounds
             /\ store'.flGlobalProgress.expected_clients = Cardinality(Requested(cfg))
             /\ DOMAIN store'.flClientProgress = Requested(cfg)
             /\ \A c \in Requested(cfg) :
                   /\ store'.flClientProgress[c].client_id = c
                   /\ store'.flClientProgress[c].status = "waiting"
                   /\ store'.flClientProgress[c].current_epoch = 0
                   /\ store'.flClientProgress[c].total_epochs = 0
                   /\ store'.flClientProgress[c].progress_pct = 0]_vars

\* a start request with the explicit selection {a, b} out of three registered
\* clients is in flight
C6_Witness ==
    /\ last.op = "handle_start"
    /\ starting
    /\ clients = {"a", "b", "c"}
    /\ DOMAIN store.flClientProgress = {"a", "b"}
    /\ store.flGlobalProgress.expected_clients = 2

\* C7: a progress event for client c writes the record of c and no other:
\* no other key appears or disappears, every other record, the round results
\* and the per-client history are unchanged; phase training with epoch 1 gives
\* status training and current_epoch 1.
C7_ProgressTouchesOneClient ==
    [][\A d \in FlProgressPayloads :
          FlProgress(d) =>
             /\ DOMAIN store'.flClientProgress \subseteq
                   (DOMAIN store.flClientProgress) \cup {d.client_id}
             /\ \A c \in (DOMAIN store.flClientProgress) \ {d.client_id} :
                   /\ c \in DOMAIN store'.flClientProgress
                   /\ store'.flClientProgress[c] = store.flClientProgress[c]
             /\ (d.client_id \in Ids /\ d.phase = "training" /\ d.epoch = 1) =>
                   /\ store'.flClientProgress[d.client_id].status = "training"
                   /\ store'.flClientProgress[d.client_id].current_epoch = 1
             /\ store'.flRoundResults = store.flRoundResults
             /\ store'.flClientRoundHistory = store.flClientRoundHistory]_vars

\* a progress event has moved one seeded client to training, epoch 1, while
\* another seeded client still waits
C7_Witness ==
    /\ last.op = "fl_progress"
    /\ last.keys = Cardinality(DOMAIN store.flClientProgress)
    /\ \E c \in DOMAIN store.flClientProgress :
          /\ store.flClientProgress[c].status = "training"
          /\ store.flClientProgress[c].current_epoch = 1
    /\ \E c \in DOMAIN store.flClientProgress :
          /\ store.flClientProgress[c].status = "waiting"

\* C8: a round-completion event leaves every client listed in its
\* client_metrics with status done and progress_pct 100.
C8_RoundMarksClientsDone ==
    [][\A d \in FlRoundPayloads :
          (FlRound(d) /\ Has(d, "client_metrics")) =>
             \A i \in 1..Len(d.client_metrics) :
                LET c == d.client_metrics[i].client_id
                IN /\ c \in DOMAIN store'.flClientProgress
                   /\ store'.flClientProgress[c].status = "done"
                   /\ store'.flClientProgress[c].progress_pct = 100]_vars

\* a round completion has marked two clients done, one of which was not in the
\* map before
C8_Witness ==
    /\ last.op = "fl_round"
    /\ last.keys = 1
    /\ \E c, c2 \in DOMAIN store.flClientProgress :
          /\ c # c2
          /\ store.flClientProgress[c].status = "done"
          /\ store.flClientProgress[c].progress_pct = 100
          /\ store.flClientProgress[c2].status = "done"
          /\ store.flClientProgress[c2].progress_pct = 100

\* the clients a client_metrics array lists
Listed(d) ==
    IF Has(d, "client_metrics")
    THEN {d.client_metrics[i].client_id : i \in 1..Len(d.client_metrics)}
    ELSE {}

\* C9: a round-completion event of round n appends one result (n, global_loss,
\* global_accuracy) at the end of the round results and, for each listed
\* client, one entry (n, local_loss, local_accuracy) at the end of its
\* history; the history of every other client is unchanged.  (The payloads
\* list a client at most once.)
C9_RoundAppendsResults ==
    [][\A d \in FlRoundPayloads :
          FlRound(d) =>
             /\ store'.flRoundResults =
                   Append(store.flRoundResults,
                          [round |-> d.round_number, loss |-> d.global_loss,
                           accuracy |-> d.global_accuracy])
             /\ DOMAIN store'.flClientRoundHistory =
                   (DOMAIN store.flClientRoundHistory) \cup Listed(d)
             /\ \A c \in (DOMAIN store.flClientRoundHistory) \ Listed(d) :
                   store'.flClientRoundHistory[c] = store.flClientRoundHistory[c]
             /\ Has(d, "client_metrics") =>
                   \A i \in 1..Len(d.client_metrics) :
                      LET cm == d.client_metrics[i]
                      IN store'.flClientRoundHistory[cm.client_id] =
                            Append(HistoryOf(store, cm.client_id),
                                   [round |-> d.round_number, loss |-> cm.local_loss,
                                    accuracy |-> cm.local_accuracy])]_vars

\* a second round completion has extended the results and the history of one
\* client, while the history of a client it does not list stayed at one entry
C9_Witness ==
    /\ last.op = "fl_round"
    /\ last.results = 1
    /\ Len(store.flRoundResults) = 2
    /\ store.flRoundResults[1].round # store.flRoundResults[2].round
    /\ last.history = 2
    /\ \E c \in DOMAIN store.flClientRoundHistory : Len(store.flClientRoundHistory[c]) = 2
    /\ \E c \in DOMAIN store.flClientRoundHistory : Len(store.flClientRoundHistory[c]) = 1

\* nothing the store held is removed by a step from store s to store t
NothingRemoved(s, t) ==
    /\ DOMAIN s.flClientProgress \subseteq DOMAIN t.flClientProgress
    /\ IsPrefix(s.flRoundResults, t.flRoundResults)
    /\ \A c \in DOMAIN s.flClientRoundHistory :
          /\ c \in DOMAIN t.flClientRoundHistory
          /\ IsPrefix(s.flClientRoundHistory[c], t.flClientRoundHistory[c])

\* a step of handleStart: its seeding, its reconciliation or its rollback
StartStep ==
    \/ \E cfg \in StartConfigs(clients) : HandleStart(cfg)
    \/ \E resp \in StartResponses : StartOk(resp)
    \/ \E e \in Rejections : StartFail(e)

\* C10: a training-complete event sets is_training to false and leaves the
\* client-progress map, the round results and the per-client history exactly
\* as they were; only a step of handleStart ever removes anything from them.
C10_CompleteClearsNothing ==
    [][/\ \A d \in TrainingCompletePayloads :
             TrainingComplete(d) =>
                /\ store'.flGlobalProgress # NullObj
                /\ store'.flGlobalProgress.is_training = FALSE
                /\ store'.flClientProgress = store.flClientProgress
                /\ store'.flRoundResults = store.flRoundResults
                /\ store'.flClientRoundHistory = store.flClientRoundHistory
       /\ ~StartStep => NothingRemoved(store, store')]_vars

\* a training-complete event has ended a session whose clients, round results
\* and per-client history are all still in the store
C10_Witness ==
    /\ last.op = "training_complete"
    /\ last.keys > 0
    /\ last.results > 0
    /\ last.history > 0
    /\ store.flGlobalProgress.is_training = FALSE
    /\ Cardinality(DOMAIN store.flClientProgress) = last.keys
    /\ Len(store.flRoundResults) = last.results
    /\ Cardinality(DOMAIN store.flClientRoundHistory) = last.history

\* C11: when a stop request has been answered, whether it succeeded or failed,
\* the session is not training (isLive is false).
C11_StopMarksNotTraining ==
    [][(StopOk \/ \E e \in Rejections : StopFail(e)) => ~isLive']_vars

\* C12: after any sequence of pushes the feed holds at most MAX_PREDICTIONS
\* items and, when anything was pushed, its first item is the one pushed last.
C12_RingBound ==
    /\ Len(store.latestPredictions) <= MAX_PREDICTIONS
    /\ pushed # <<>> =>
          /\ store.latestPredictions # <<>>
          /\ store.latestPredictions[1] = pushed[Len(pushed)]

\* more predictions than the capacity were pushed, the last of them by an event
C12_Witness ==
    /\ nEvents > 0
    /\ Len(pushed) > MAX_PREDICTIONS
    /\ Len(store.latestPredictions) = MAX_PREDICTIONS
    /\ store.latestPredictions[1].timestamp = Len(pushed)

\* the number of items the feed holds after k pushes
Held(k) == IF k < MAX_PREDICTIONS THEN k ELSE MAX_PREDICTIONS

\* C13: after k pushes the feed is the last min(k, MAX_PREDICTIONS) pushed
\* items, newest first; every push is accepted, and a push onto a full feed
\* puts the new item in front of the old feed without its last (oldest) item.
C13_RingContent ==
    /\ [](/\ Len(store.latestPredictions) = Held(Len(pushed))
          /\ \A i \in 1..Held(Len(pushed)) :
                store.latestPredictions[i] = pushed[Len(pushed) + 1 - i])
    /\ [][\A d \in PredictionPayloads :
             Push(d) =>
                LET old == store.latestPredictions
                    new == PredictionRecord(d, Len(pushed) + 1)
                IN IF Len(old) = MAX_PREDICTIONS
                   THEN store'.latestPredictions =
                           <<new>> \o SubSeq(old, 1, MAX_PREDICTIONS - 1)
                   ELSE store'.latestPredictions = <<new>> \o old]_vars

\* two pushes onto a full feed: the two oldest items are gone, the third
\* oldest is now the last item
C13_Witness ==
    /\ nEvents = 2
    /\ Len(pushed) = MAX_PREDICTIONS + 2
    /\ Len(store.latestPredictions) = MAX_PREDICTIONS
    /\ store.latestPredictions[MAX_PREDICTIONS] = pushed[3]
    /\ store.latestPredictions[1] = pushed[MAX_PREDICTIONS + 2]

\* the positions in the arrival log of the events of one type for one entity
ArrivalsOf(type, field, id) ==
    {i \in 1..Len(arrived) : arrived[i].type = type /\ arrived[i].data[field] = id}

\* the payload of the last-arrived event of one type for one entity
LastArrived(type, field, id) ==
    LET idx == ArrivalsOf(type, field, id)
    IN arrived[CHOOSE i \in idx : \A j \in idx : j <= i].data

\* the entities for which an event of one type has arrived
EntitiesOf(type, field) ==
    {arrived[i].data[field] : i \in {j \in 1..Len(arrived) : arrived[j].type = type}}

\* C14: each keyed status store holds, for every entity an event has arrived
\* for and for no other, the payload of the event that arrived last for it,
\* whatever the timestamps of the events; a status event changes the record
\* of its own entity only.
C14_LastWriteWins ==
    /\ [](/\ DOMAIN store.deviceStatuses = EntitiesOf("device_status", "device_id")
          /\ \A id \in DOMAIN store.deviceStatuses :
                LET d == LastArrived("device_status", "device_id", id)
                IN /\ store.deviceStatuses[id].device_id = d.device_id
                   /\ store.deviceStatuses[id].device_name = d.device_name
                   /\ store.deviceStatuses[id].status = d.status
          /\ DOMAIN store.clientStatuses = EntitiesOf("client_status", "client_id")
          /\ \A id \in DOMAIN store.clientStatuses :
                LET d == LastArrived("client_status", "client_id", id)
                IN /\ store.clientStatuses[id].client_id = d.client_id
                   /\ store.clientStatuses[id].client_name = d.client_name
                   /\ store.clientStatuses[id].status = d.status
                   /\ store.clientStatuses[id].container_status =
                         (IF d.container_status = NoStr THEN "not_found"
                          ELSE d.container_status))
    /\ [][/\ \A msg \in DeviceStatusMessages :
                DeviceStatus(msg) =>
                   /\ store'.clientStatuses = store.clientStatuses
                   /\ \A id \in (DOMAIN store.deviceStatuses) \ {msg.data.device_id} :
                         /\ id \in DOMAIN store'.deviceStatuses
                         /\ store'.deviceStatuses[id] = store.deviceStatuses[id]
          /\ \A msg \in ClientStatusMessages :
                ClientStatus(msg) =>
                   /\ store'.deviceStatuses = store.deviceStatuses
                   /\ \A id \in (DOMAIN store.clientStatuses) \ {msg.data.client_id} :
                         /\ id \in DOMAIN store'.clientStatuses
                         /\ store'.clientStatuses[id] = store.clientStatuses[id]]_vars

\* for device d1 an event stamped 2 arrived before an event stamped 1 with
\* another status: the store holds the status that arrived last, and the
\* record of d2, written before both, is still there
C14_Witness ==
    /\ Len(arrived) = 3
    /\ arrived[1].type = "device_status" /\ arrived[1].data.device_id = "d2"
    /\ arrived[2].type = "device_status" /\ arrived[2].data.device_id = "d1"
    /\ arrived[3].type = "device_status" /\ arrived[3].data.device_id = "d1"
    /\ arrived[2].timestamp > arrived[3].timestamp
    /\ arrived[2].data.status # arrived[3].data.status
    /\ store.deviceStatuses["d1"].status = arrived[3].data.status
    /\ store.deviceStatuses["d2"].status = "offline"

\* C15: once the teardown of an effect run has been called twice in a row, no
\* handler of that run is live and each of its handles has been released
\* exactly once.
C15_IdempotentDetach ==
    (~root.attached /\ root.detaches = 2) =>
       /\ transport.subs \cap root.unsubs = {}
       /\ \A u \in root.unsubs : transport.released[u] = 1

\* C16: after the teardown has run, a message of any type the transport
\* receives changes no field of the store.
C16_NoMutationAfterDetach ==
    [][\A msg \in LiveMessages :
          (Emit(msg) /\ ~root.attached /\ root.detaches > 0) => store' = store]_vars

\* a message arrived after the teardown, over a store that holds what the
\* handlers wrote before it
C16_Witness ==
    /\ ~root.attached
    /\ root.detaches > 0
    /\ nEvents = 2
    /\ last.op = "prediction"
    /\ last.prev = "detach"
    /\ Len(store.latestPredictions) = 1

\* the seven event types the provider handles
SpecifiedTypes ==
    {"prediction", "fl_progress", "fl_round", "training_start", "training_complete",
     "client_status", "device_status"}

\* the fields of the store that s and t differ in
Changed(s, t) == {f \in DOMAIN s : s[f] # t[f]}

\* the fields of the FL session
SessionFields ==
    {"flClientProgress", "flGlobalProgress", "flRoundResults", "flClientRoundHistory"}

\* C17: while the provider is mounted, a message of a type other than the
\* seven known ones changes no field of the store, and a message of a known
\* type is applied by the reducer of its type and changes no field outside
\* that reducer's own.
C17_DispatchByType ==
    [][\A msg \in LiveMessages :
          (Emit(msg) /\ root.attached) =>
             /\ msg.type \notin SpecifiedTypes => store' = store
             /\ msg.type = "prediction" =>
                   /\ store' = PredictionHandler(store, msg.data, msg.timestamp)
                   /\ Changed(store, store') = {"latestPredictions"}
             /\ msg.type = "fl_progress" =>
                   /\ store' = FlProgressHandler(store, msg.data)
                   /\ Changed(store, store') \subseteq SessionFields
             /\ msg.type = "fl_round" =>
                   /\ store' = FlRoundHandler(store, msg.data)
                   /\ Changed(store, store') \subseteq SessionFields
             /\ msg.type = "training_start" =>
                   /\ store' = TrainingStartHandler(store, msg.data)
                   /\ Changed(store, store') \subseteq SessionFields
             /\ msg.type = "training_complete" =>
                   /\ store' = TrainingCompleteHandler(store, msg.data)
                   /\ Changed(store, store') \subseteq SessionFields
             /\ msg.type = "client_status" =>
                   /\ store' = ClientStatusHandler(store, msg.data)
                   /\ Changed(store, store') \subseteq {"clientStatuses"}
             /\ msg.type = "device_status" =>
                   /\ store' = DeviceStatusHandler(store, msg.data)
                   /\ Changed(store, store') \subseteq {"deviceStatuses"}]_vars

\* a message of an unknown type arrived at the mounted provider right after a
\* device_status message had been applied
C17_Witness ==
    /\ root.attached
    /\ nEvents = 2
    /\ last.op = "heartbeat"
    /\ last.prev = "device_status"
    /\ "d1" \in DOMAIN store.deviceStatuses

\* messages of a known type whose payload lacks the field its reducer keys on
MalformedMessages ==
    {m \in LiveMessages :
        \/ m.type = "prediction" /\ m.data.device_id = NoStr
        \/ m.type = "fl_round" /\ m.data.round_number = UNDEF
        \/ m.type = "device_status" /\ m.data.device_id = NoStr
        \/ m.type = "client_status" /\ m.data.client_id = UNDEF
        \/ m.type = "fl_progress" /\ m.data.client_id = NoStr}

\* C18: a message of a known type that lacks a required field leaves the whole
\* store unchanged.
C18_MalformedDropped ==
    [][\A msg \in MalformedMessages : Emit(msg) => store' = store]_vars

\* C19: a disconnect sets wsConnected to false while the provider is mounted
\* and changes no other field of the store and no subscription; a reconnect
\* likewise only sets wsConnected, so the handlers go on working on the state
\* they left.
C19_DisconnectKeepsState ==
    [][/\ Disconnect =>
             /\ root.attached => store'.wsConnected = FALSE
             /\ Changed(store, store') \subseteq {"wsConnected"}
             /\ transport'.subs = transport.subs
       /\ Connect =>
             /\ root.attached => store'.wsConnected = TRUE
             /\ Changed(store, store') \subseteq {"wsConnected"}
             /\ transport'.subs = transport.subs
       /\ \A msg \in LiveMessages :
             (Emit(msg) /\ root.attached /\ last.op = "connect"
                        /\ msg.type \in SpecifiedTypes) =>
                store' = Handler(msg.type, store, msg)]_vars

\* a prediction received right after a reconnect was put in front of the one
\* received before the disconnect
C19_Witness ==
    /\ root.attached
    /\ store.wsConnected
    /\ last.op = "prediction"
    /\ last.prev = "connect"
    /\ Len(store.latestPredictions) = 2

\* run o has received the whole polled list and the whole live sequence
Complete(o) ==
    /\ runs[o].rounds = finals.rounds
    /\ runs[o].live = finals.live

\* C20: when the run in which live data arrived first and the run in which
\* polled data arrived first have both received the same final polled list
\* and the same final live sequence, their charts are identical.
C20_MergeCommutes ==
    (Complete("live_first") /\ Complete("polled_first")) =>
       runs["live_first"].chart = runs["polled_first"].chart

\* both runs are complete, the polled list of two sessions and two live
\* results having arrived in opposite orders, and the chart shows polled and
\* live rows
C20_Witness ==
    /\ Complete("live_first")
    /\ Complete("polled_first")
    /\ Len(finals.rounds) = 3
    /\ Len(finals.live) = 2
    /\ Len(runs["live_first"].chart) > Len(finals.rounds)

\* the (session, round) pairs of the rows of a chart, in order
Pairs(chart) == [i \in 1..Len(chart) |-> <<chart[i].session, chart[i].roundNum>>]

\* no two rows of a chart carry the same (session, round) pair
NoRepeatedPair(chart) ==
    \A i, j \in 1..Len(chart) : i # j => Pairs(chart)[i] # Pairs(chart)[j]

\* C21: whatever polled list and live round results have arrived, the merged
\* chart has no two rows with the same (session, round) pair.
C21_NoDuplicateRounds ==
    \A o \in Orders : NoRepeatedPair(runs[o].chart)

\* the merged prediction list the traffic monitor shows
Merged == MergedPredictions(monitor, store.latestPredictions)

C23_ProgressMerges ==
    [][\A d \in FlProgressPayloads :
          (FlProgress(d) /\ d.client_id \in DOMAIN store.flClientProgress) =>
             LET old == store.flClientProgress[d.client_id]
                 new == store'.flClientProgress[d.client_id]
             IN /\ d.num_samples = UNDEF => new.num_samples = old.num_samples
                /\ (d.local_accuracy = UNDEF /\ d.accuracy = UNDEF) =>
                      new.local_accuracy = old.local_accuracy
                /\ (d.epoch_loss = UNDEF /\ d.loss = UNDEF) =>
                      new.local_loss = old.local_loss
                /\ d.samples_processed = UNDEF =>
                      new.samples_processed = old.samples_processed
                /\ d.batches_processed = UNDEF =>
                      new.batches_processed = old.batches_processed
                /\ d.grand_total_batches = UNDEF =>
                      new.grand_total_batches = old.grand_total_batches]_vars

\* C24: a progress or round-completion event for an id outside the roster
\* creates a record (and, for a round completion, a history entry) for it,
\* and reconciliation with the authoritative list keeps the record and the
\* history of every id that is neither registered nor in the list but has
\* reported (its record is no placeholder).
C24_PhantomRetained ==
    [][/\ \A d \in FlProgressPayloads :
             (FlProgress(d) /\ d.client_id \in Ids) =>
                d.client_id \in DOMAIN store'.flClientProgress
       /\ \A d \in FlRoundPayloads :
             FlRound(d) =>
                /\ Listed(d) \subseteq DOMAIN store'.flClientProgress
                /\ Listed(d) \subseteq DOMAIN store'.flClientRoundHistory
       /\ \A resp \in StartResponses :
             (StartOk(resp) /\ Has(resp, "client_ids")) =>
                /\ store'.flClientRoundHistory = store.flClientRoundHistory
                /\ \A c \in (DOMAIN store.flClientProgress) \ (clients \cup resp.client_ids) :
                      store.flClientProgress[c].status # "waiting" =>
                         /\ c \in DOMAIN store'.flClientProgress
                         /\ store'.flClientProgress[c] = store.flClientProgress[c]]_vars

\* the session the live results belong to: the last one of the polled list,
\* the first when nothing polled starts a session
CurrentSession(rounds) ==
    IF SessionAt(rounds, Len(rounds)) = 0 THEN 1 ELSE SessionAt(rounds, Len(rounds))

\* the polled list holds the round of a live result in the current session
Reflected(rounds, lr) ==
    \E i \in 1..Len(rounds) :
       /\ rounds[i].round_number = lr.round
       /\ SessionAt(rounds, i) = CurrentSession(rounds)

\* C25: the chart is the polled rounds followed by exactly the live results
\* whose round the polled list does not hold in the current session, in
\* arrival order and with the current session as their session, also when
\* the polled list spans several sessions.
C25_LiveRoundsKept ==
    \A o \in Orders :
       LET rounds == runs[o].rounds
           chart == runs[o].chart
           Missing(lr) == ~Reflected(rounds, lr)
           fresh == SelectSeq(runs[o].live, Missing)
       IN (rounds # <<>> \/ runs[o].live # <<>>) =>
             /\ Len(chart) = Len(rounds) + Len(fresh)
             /\ \A i \in 1..Len(rounds) : chart[i].id = rounds[i].id
             /\ \A k \in 1..Len(fresh) :
                   /\ chart[Len(rounds) + k].roundNum = fresh[k].round
                   /\ chart[Len(rounds) + k].session = CurrentSession(rounds)

\* C26: a round-completion event sets the session record's global_loss and
\* global_accuracy to the event's values and its current_round to the event's
\* round number.
C26_RoundUpdatesSession ==
    [][\A d \in FlRoundPayloads :
          FlRound(d) =>
             /\ store'.flGlobalProgress # NullObj
             /\ store'.flGlobalProgress.global_loss = d.global_loss
             /\ store'.flGlobalProgress.global_accuracy = d.global_accuracy
             /\ store'.flGlobalProgress.current_round = d.round_number]_vars

\* the completion of round 2 with metrics has replaced the session record the
\* completion of round 1, without metrics, had written
C26_Witness ==
    /\ last.op = "fl_round"
    /\ last.results = 1
    /\ store.flRoundResults[1].round = 1
    /\ store.flRoundResults[1].loss = NULL
    /\ store.flGlobalProgress.current_round = 2
    /\ store.flGlobalProgress.global_loss = 8
    /\ store.flGlobalProgress.global_accuracy = 9

\* C27: a progress event and a round-completion event leave a live session
\* live (is_training stays true); only a training-complete event, a stop or
\* the rollback of a failed start end it.
C27_LiveUntilComplete ==
    [][/\ \A d \in FlProgressPayloads : (FlProgress(d) /\ isLive) => isLive'
       /\ \A d \in FlRoundPayloads : (FlRound(d) /\ isLive) => isLive']_vars

\* a store that holds nothing but a freshly seeded session
FreshSession(s) ==
    /\ s.flRoundResults = <<>>
    /\ DOMAIN s.flClientRoundHistory = {}
    /\ s.flGlobalProgress # NullObj
    /\ s.flGlobalProgress.current_round = 0
    /\ \A c \in DOMAIN s.flClientProgress : s.flClientProgress[c] = Placeholder(c, "waiting")

\* C28: the clears and the seeding of a start request are one step: the state
\* it leaves is a freshly seeded session, and the first event reducer applied
\* after it is applied to that state, never to one in which the new session
\* stands next to round results or history of the previous one.
C28_AtomicStartClear ==
    [][/\ \A cfg \in StartConfigs(clients) : HandleStart(cfg) => FreshSession(store')
       /\ (last.op = "handle_start" /\ nEvents' # nEvents) => FreshSession(store)]_vars

\* a start request has cleared round results and history of a previous
\* session and is in flight, and an event can still arrive
C28_Witness ==
    /\ last.op = "handle_start"
    /\ starting
    /\ nEvents < MaxEvents
    /\ last.results > 0
    /\ last.history > 0
    /\ FreshSession(store)

\* C29: while the provider is mounted the store's wsConnected equals the
\* transport's isConnected: every connect and disconnect is mirrored in the
\* same step, whether or not an event has been delivered, and the delivery of
\* an event of any type neither changes wsConnected nor the connection.
C29_ConnectivityMirror ==
    /\ [](root.attached => store.wsConnected = transport.isConnected)
    /\ [][/\ (Connect \/ Disconnect) =>
                (root.attached => store'.wsConnected = transport'.isConnected)
          /\ \A msg \in LiveMessages :
                Emit(msg) =>
                   /\ store'.wsConnected = store.wsConnected
                   /\ transport'.isConnected = transport.isConnected]_vars

\* a disconnect right after a connect has been mirrored at the mounted
\* provider before any event was delivered
C29_Witness ==
    /\ root.attached
    /\ nEvents = 0
    /\ last.op = "disconnect"
    /\ last.prev = "connect"
    /\ ~transport.isConnected
    /\ ~store.wsConnected

\* C30: after k round-completion events since the last clear the round-result
\* sequence has k elements, the i-th being the (round, loss, accuracy) of the
\* i-th event, also when a round number arrives more than once.
C30_ResultsAccumulate ==
    /\ Len(store.flRoundResults) = Len(arrived)
    /\ \A i \in 1..Len(arrived) :
          store.flRoundResults[i] =
             [round |-> arrived[i].round_number, loss |-> arrived[i].global_loss,
              accuracy |-> arrived[i].global_accuracy]

\* after a start request cleared an earlier result, round 1 was completed
\* twice with different metrics: the sequence holds both, in arrival order
C30_Witness ==
    /\ starting
    /\ nEvents = 3
    /\ Len(arrived) = 2
    /\ arrived[1].round_number = 1
    /\ arrived[2].round_number = 1
    /\ arrived[1].global_loss = 8
    /\ arrived[2].global_loss = NULL
    /\ Len(store.flRoundResults) = 2
    /\ store.flRoundResults[1].loss = 8

\* the statuses a client progress record may have
ProgressStatuses == {"waiting", "training", "encrypting", "sending", "done", "error"}

\* C31: in every reachable state the status of every client progress record
\* is one of waiting, training, encrypting, sending, done, error.
C31_StatusInEnum ==
    \A c \in DOMAIN store.flClientProgress :
       store.flClientProgress[c].status \in ProgressStatuses

\* C33: after a training-complete event has ended the session, a progress or
\* round-completion event that arrives before any new start leaves the
\* session not training.
C33_FinishedStaysFinished ==
    [][(/\ last.op = "training_complete"
        /\ ~isLive
        /\ \/ \E d \in FlProgressPayloads : FlProgress(d)
           \/ \E d \in FlRoundPayloads : FlRound(d)) => ~isLive']_vars

\* C34: a progress, round-completion or training-complete event leaves the
\* use_he and expected_clients of an existing session record as they were.
C34_StartAttributesSurvive ==
    [][(/\ store.flGlobalProgress # NullObj
        /\ \/ \E d \in FlProgressPayloads : FlProgress(d)
           \/ \E d \in FlRoundPayloads : FlRound(d)
           \/ \E d \in TrainingCompletePayloads : TrainingComplete(d)) =>
          /\ store'.flGlobalProgress # NullObj
          /\ store'.flGlobalProgress.use_he = store.flGlobalProgress.use_he
          /\ store'.flGlobalProgress.expected_clients =
                store.flGlobalProgress.expected_clients]_vars

\* C35: after a training_start event the client-progress map holds no entry
\* but the placeholders of the ids the event lists, and the round results and
\* the per-client history are empty.
C35_EventStartIsClean ==
    [][\A d \in TrainingStartPayloads :
          TrainingStart(d) =>
             /\ DOMAIN store'.flClientProgress =
                   (IF Has(d, "client_ids") THEN d.client_ids ELSE {})
             /\ store'.flRoundResults = <<>>
             /\ DOMAIN store'.flClientRoundHistory = {}]_vars

\* C36: after a rejected start request the session record is null and the
\* client-progress map, the round results and the per-client history are
\* empty, whatever events were applied while the request was in flight.
C36_RollbackEmptiesAll ==
    [][\A e \in Rejections :
          StartFail(e) =>
             /\ store'.flGlobalProgress = NullObj
             /\ DOMAIN store'.flClientProgress = {}
             /\ store'.flRoundResults = <<>>
             /\ DOMAIN store'.flClientRoundHistory = {}]_vars

\* C37: whenever the session record is non-null its current_round is at most
\* its total_rounds.  (Every payload of the model that carries both a round
\* and a total has round <= total.)
C37_RoundWithinTotal ==
    store.flGlobalProgress # NullObj =>
       store.flGlobalProgress.current_round <= store.flGlobalProgress.total_rounds

\* the views of the FL session and the monitoring views of a store
SessionViews(s) ==
    <<s.flGlobalProgress, s.flClientProgress, s.flRoundResults, s.flClientRoundHistory>>

MonitoringViews(s) ==
    <<s.latestPredictions, s.deviceStatuses, s.clientStatuses, s.wsConnected>>

SessionTypes == {"fl_progress", "fl_round", "training_start", "training_complete"}

MonitoringTypes == {"prediction", "device_status", "client_status"}

\* C38: the start, the reconciliation, the rollback and every fl_* and
\* training_* event leave latestPredictions, deviceStatuses, clientStatuses and
\* wsConnected unchanged; every prediction, device_status and client_status
\* event leaves the session record, the client progress, the round results and
\* the per-client history unchanged.
C38_ViewsIndependent ==
    [][/\ (\/ \E cfg \in StartConfigs(clients) : HandleStart(cfg)
           \/ \E resp \in StartResponses : StartOk(resp)
           \/ \E e \in Rejections : StartFail(e)
           \/ \E msg \in LiveMessages : msg.type \in SessionTypes /\ Emit(msg))
          => MonitoringViews(store') = MonitoringViews(store)
       /\ (\E msg \in LiveMessages : msg.type \in MonitoringTypes /\ Emit(msg))
          => SessionViews(store') = SessionViews(store)]_vars

\* a start was reconciled over a store whose feed and device statuses are not
\* empty, with the connection up
C38_Witness ==
    /\ last.op = "start_ok"
    /\ store.latestPredictions # <<>>
    /\ DOMAIN store.deviceStatuses # {}
    /\ store.wsConnected
    /\ store.flGlobalProgress # NullObj

\* C32: across mounts, re-runs of the subscription effect and teardowns at
\* most one handler per event type is live on the transport, and a delivered
\* event is applied to the store exactly once: a prediction adds one entry to
\* the feed, a round completion one round result.
C32_OneEventOneTransition ==
    /\ [](\A type \in DOMAIN transport.live : transport.live[type] <= 1)
    /\ [][\A msg \in LiveMessages :
             (Emit(msg) /\ msg.type \in transport.subs) =>
                /\ store' = Handler(msg.type, store, msg)
                /\ msg.type = "prediction" =>
                      Len(store'.latestPredictions) = Len(store.latestPredictions) + 1
                /\ msg.type = "fl_round" =>
                      Len(store'.flRoundResults) = Len(store.flRoundResults) + 1]_vars

\* a prediction was delivered right after a re-run of the effect and the feed
\* holds that one entry
C32_Witness ==
    /\ last.op = "prediction"
    /\ last.prev = "rerun"
    /\ Len(store.latestPredictions) = 1
    /\ transport.live["prediction"] = 1

\* C39: when login rejects, at the credential request or at the profile
\* fetch, the auth store is left with isAuthenticated false and isLoading
\* false, and ProtectedRoute does not admit the user.
C39_RejectedLoginSignedOut ==
    [][(\E status \in FailureStatuses :
           CredentialsRejected(status) \/ ProfileRejected(status)) =>
          /\ ~auth'.isAuthenticated
          /\ ~auth'.isLoading
          /\ ~Admitted(auth')]_vars
====
